---------------------------- MODULE Spec2Model ----------------------------
(***************************************************************************)
(* Lip-sync pipeline: text -> phoneme estimate -> timed mouth cues          *)
(* (phoneme-cmu.ts), PCM amplitude envelope (audio-manager.ts), the         *)
(* refinement gate and playback driver (useLipSync), the avatar's per-frame *)
(* target weights (Avatar.tsx) and the /api/phonemes route.                 *)
(*                                                                         *)
(* Times are seconds, held as exact rationals <<n, d>> (d > 0, lowest       *)
(* terms).  The one place where the code's double rounding can change the   *)
(* outcome of a branch - the comparison of the accumulated currentTime with *)
(* the duration when both are equal in exact arithmetic - is an input       *)
(* (roundsBelow).                                                           *)
(***************************************************************************)
EXTENDS Integers, Sequences, FiniteSets, TLC

VARIABLES
  \* ---- estimateWithCMU (phoneme-cmu.ts) --------------------------------
  text,             \* input text: sequence of whitespace-separated chunks
  durationSeconds,  \* input duration (rational seconds)
  roundsBelow,      \* double rounding leaves the accumulated time below D
  mouthCues,        \* the returned timeline
  cmuPc             \* "input" | "done" | "threw"

cmuVars == <<text, durationSeconds, roundsBelow, mouthCues, cmuPc>>

VARIABLES
  \* ---- AudioManager.extractAmplitudeEnvelope (audio-manager.ts) ---------
  pcm16,            \* input: the Int16 samples of the PCM buffer
  samplesPerFrame,  \* input: Math.ceil(sampleRate / fps)
  envelope,         \* the returned envelope
  envPc             \* "input" | "done"

envVars == <<pcm16, samplesPerFrame, envelope, envPc>>

VARIABLES
  \* ---- wordToRhubarb (phoneme-cmu.ts) ------------------------------------
  g2pWord,          \* input: one word of lower-case letters
  g2pResult,        \* the returned PhonemeToken[]
  g2pPc             \* "input" | "done" | "threw"

g2pVars == <<g2pWord, g2pResult, g2pPc>>

VARIABLES
  \* ---- PhonemeService.extractPhonemes and its cache ----------------------
  cache,            \* the Map, as its entries [key, value] in insertion order
  extractCalls      \* per call: [pc, key, returned]

cacheVars == <<cache, extractCalls>>

VARIABLES
  \* ---- useConversation (hooks/useConversation) ---------------------------
  status,           \* "idle" | "listening" | "thinking" | "responding"
  statusRef,
  recognition,      \* the SpeechRecognition: "off" | "starting" | "on" | "closing"
  turnPc,           \* per final transcript: the position of handleFinalTranscript
  turnSource,       \* per final transcript: the audio source playPCM made for its reply
  idleTimer,        \* the 120 ms timeout of the responding -> idle effect
  seenFlags,        \* <<isPlaying, isFetching>> at the last run of that effect
  \* history, read by the properties only
  cancelled         \* transcripts whose chat request was pending at an interrupt()
                    \* or at a later final transcript

convVars == <<status, statusRef, recognition, turnPc, turnSource, idleTimer,
              seenFlags, cancelled>>

VARIABLES
  \* ---- Avatar.useFrame (Avatar.tsx) --------------------------------------
  avatarProps,      \* input: [currentViseme, nextViseme, isPlaying, mouthAmplitude]
  weights,          \* the target weight of each morph target
  morphTargetInfluences,  \* the smoothed weight of each morph target
  frames,           \* frames rendered so far
  framePc           \* "input" | "done"

avatarVars == <<avatarProps, weights, morphTargetInfluences, frames, framePc>>

VARIABLES
  \* ---- PhonemeService.runRhubarb (phoneme-service.ts) --------------------
  proc,             \* "writing" | "notSpawned" | "running" | "error" |
                    \* "unlinking" | "closed"
  closeCode,        \* what the 'close' event brought, "none" before it
  rhubarbPromise,   \* "pending" | "resolved" | "rejected"
  elapsed,          \* time since the spawn, in 1/TicksPerSecond s
  timer,            \* the 30 s timer: "unset" | "armed" | "fired"
  settleCalls       \* calls of resolve or reject so far

rhubarbVars == <<proc, closeCode, rhubarbPromise, elapsed, timer, settleCalls>>

VARIABLES
  \* ---- POST /api/phonemes (app/api/phonemes/route.ts) --------------------
  request,          \* input: the request body
  rhubarbAvailable, \* input: RHUBARB_AVAILABLE
  extractOutcome,   \* input: what extractPhonemes does
  routeRoundsBelow, \* input: roundsBelow of the fallback's estimateWithCMU
  response,         \* [status, mouthCues]
  routePc           \* "input" | "done"

routeVars == <<request, rhubarbAvailable, extractOutcome, routeRoundsBelow,
               response, routePc>>

VARIABLES
  \* ---- useLipSync with its AudioManager (hooks/useLipSync) ---------------
  \* React state
  isPlaying, isFetching, currentViseme, nextViseme, error,
  \* refs
  isPlayingRef, currentVisemeRef, nextVisemeRef,
  phonemeDataRef,      \* the active timeline (MouthCue[])
  audioBufferRef,      \* utterance whose audio is kept for replay, 0 = null
  animationFrameRef,   \* "unset" | "pending" (its frame has not run) | "stale"
  pendingFrames,       \* updateViseme callbacks requested, not yet run or cancelled
  effectIsPlaying,     \* isPlaying as of the last run of the effects
  \* AudioManager
  currentSource,       \* source id, 0 = null
  sourceState,         \* per source: "unused" | "playing" | "stopped" | "ended"
  sourceUtt,           \* the utterance whose audio currentSource plays, 0 = none
  clock,               \* audioContext.currentTime - startTime, in 1/ClockHz s
  \* the speak() calls
  speakPc,             \* per utterance: "new" | "tts" | "estimate" | "refine" | "done"
  uttText, uttDuration,
  refineResponse,      \* per utterance: the /api/phonemes response not yet handled
  \* history, read by the properties only
  stopped              \* utterances whose refinement was pending when stop() ran

hookVars == <<isPlaying, isFetching, currentViseme, nextViseme, error,
              isPlayingRef, currentVisemeRef, nextVisemeRef, phonemeDataRef,
              audioBufferRef, animationFrameRef, pendingFrames, effectIsPlaying,
              currentSource, sourceState, sourceUtt, clock,
              speakPc, uttText, uttDuration, refineResponse, stopped>>

reactVars == <<isPlaying, isFetching, currentViseme, nextViseme, error>>
refVars == <<isPlayingRef, currentVisemeRef, nextVisemeRef>>
frameVars == <<animationFrameRef, pendingFrames, effectIsPlaying>>
audioVars == <<currentSource, sourceState, sourceUtt, clock>>
speakVars == <<speakPc, uttText, uttDuration, refineResponse>>

vars == <<cmuVars, envVars, hookVars, g2pVars, avatarVars, rhubarbVars, routeVars,
          cacheVars, convVars>>

-----------------------------------------------------------------------------
(* Exact rational arithmetic.                                              *)

RECURSIVE GCD(_, _)
GCD(a, b) == IF b = 0 THEN a ELSE GCD(b, a % b)

Abs(n) == IF n < 0 THEN -n ELSE n

Rat(n, d) == LET g == GCD(Abs(n), d) IN IF n = 0 THEN <<0, 1>> ELSE <<n \div g, d \div g>>

RAdd(a, b) ==
  LET g == GCD(a[2], b[2])
  IN  Rat(a[1] * (b[2] \div g) + b[1] * (a[2] \div g), (a[2] \div g) * b[2])

RNeg(a) == <<-a[1], a[2]>>
RSub(a, b) == RAdd(a, RNeg(b))

RMul(a, b) ==
  LET x == Rat(a[1], b[2])
      y == Rat(b[1], a[2])
  IN  <<x[1] * y[1], x[2] * y[2]>>

\* b > 0
RDiv(a, b) == RMul(a, <<b[2], b[1]>>)

RLt(a, b) ==
  LET g == GCD(a[2], b[2])
  IN  a[1] * (b[2] \div g) < b[1] * (a[2] \div g)
RLe(a, b) == ~RLt(b, a)
RMax(a, b) == IF RLt(a, b) THEN b ELSE a
RMin(a, b) == IF RLt(b, a) THEN b ELSE a
Zero == <<0, 1>>

-----------------------------------------------------------------------------
(* Characters.  A string is a sequence of one-character strings.           *)

LowerLetters ==
  {"a","b","c","d","e","f","g","h","i","j","k","l","m",
   "n","o","p","q","r","s","t","u","v","w","x","y","z"}
UpperLetters ==
  {"A","B","C","D","E","F","G","H","I","J","K","L","M",
   "N","O","P","Q","R","S","T","U","V","W","X","Y","Z"}

UpperSeq ==
  <<"A","B","C","D","E","F","G","H","I","J","K","L","M",
    "N","O","P","Q","R","S","T","U","V","W","X","Y","Z">>
LowerSeq ==
  <<"a","b","c","d","e","f","g","h","i","j","k","l","m",
    "n","o","p","q","r","s","t","u","v","w","x","y","z">>

\* String.prototype.toLowerCase on one character
toLowerCase(c) ==
  IF c \in UpperLetters
    THEN LowerSeq[CHOOSE i \in 1..26 : UpperSeq[i] = c]
    ELSE c

\* s.replace(/[^...]/g, '') : keep only the characters of the class
RECURSIVE KeepOnly(_, _)
KeepOnly(s, class) ==
  IF s = <<>> THEN <<>>
  ELSE IF Head(s) \in class THEN <<Head(s)>> \o KeepOnly(Tail(s), class)
  ELSE KeepOnly(Tail(s), class)

\* s.slice(n) for 0 <= n
Slice(s, n) == IF n >= Len(s) THEN <<>> ELSE SubSeq(s, n + 1, Len(s))
\* the first n characters of s (fewer when s is shorter)
Prefix(s, n) == IF n >= Len(s) THEN s ELSE SubSeq(s, 1, n)

-----------------------------------------------------------------------------
(* 1. ARPAbet -> Rhubarb letter                                            *)

ARPABET_TO_RHUBARB ==
  [ AA |-> "A", AE |-> "A", AH |-> "A", AW |-> "A", AY |-> "A",
    EH |-> "A", EY |-> "A",
    IH |-> "H", IY |-> "H",
    OW |-> "C", AO |-> "C",
    OY |-> "C",
    UH |-> "E", UW |-> "E",
    ER |-> "C",
    B |-> "B", M |-> "B", P |-> "B",
    F |-> "F", V |-> "F",
    DH |-> "D", TH |-> "D",
    D |-> "D", T |-> "D", N |-> "D",
    L |-> "C", R |-> "C", W |-> "G", Y |-> "H",
    Z |-> "H", S |-> "H", ZH |-> "H", SH |-> "H",
    CH |-> "H", JH |-> "H",
    K |-> "G", G |-> "G", NG |-> "G",
    HH |-> "H" ]

Visemes == {"A", "B", "C", "D", "E", "F", "G", "H", "X"}

(* 2. High-frequency word dictionary: <<word, ARPAbet transcription>>      *)
WORD_DICT_ENTRIES ==
  <<
    <<<<"a">>, <<"AH">>>>, <<<<"t","h","e">>, <<"DH","AH">>>>,
    <<<<"i","s">>, <<"IH","Z">>>>, <<<<"i","n">>, <<"IH","N">>>>,
    <<<<"i","t">>, <<"IH","T">>>>, <<<<"o","f">>, <<"AH","V">>>>,
    <<<<"a","n","d">>, <<"AE","N","D">>>>, <<<<"t","o">>, <<"T","UW">>>>,
    <<<<"t","h","a","t">>, <<"DH","AE","T">>>>, <<<<"w","a","s">>, <<"W","AH","Z">>>>,
    <<<<"h","e">>, <<"HH","IY">>>>, <<<<"f","o","r">>, <<"F","AO","R">>>>,
    <<<<"o","n">>, <<"AO","N">>>>, <<<<"a","r","e">>, <<"AA","R">>>>,
    <<<<"w","i","t","h">>, <<"W","IH","DH">>>>, <<<<"a","s">>, <<"AE","Z">>>>,
    <<<<"i">>, <<"AY">>>>, <<<<"h","i","s">>, <<"HH","IH","Z">>>>,
    <<<<"t","h","e","y">>, <<"DH","EY">>>>, <<<<"b","e">>, <<"B","IY">>>>,
    <<<<"a","t">>, <<"AE","T">>>>, <<<<"o","n","e">>, <<"W","AH","N">>>>,
    <<<<"h","a","v","e">>, <<"HH","AE","V">>>>, <<<<"t","h","i","s">>, <<"DH","IH","S">>>>,
    <<<<"f","r","o","m">>, <<"F","R","AH","M">>>>, <<<<"o","r">>, <<"AO","R">>>>,
    <<<<"h","a","d">>, <<"HH","AE","D">>>>, <<<<"b","y">>, <<"B","AY">>>>,
    <<<<"n","o","t">>, <<"N","AA","T">>>>, <<<<"b","u","t">>, <<"B","AH","T">>>>,
    <<<<"w","h","a","t">>, <<"W","AH","T">>>>, <<<<"a","l","l">>, <<"AO","L">>>>,
    <<<<"w","e","r","e">>, <<"W","ER">>>>, <<<<"w","e">>, <<"W","IY">>>>,
    <<<<"w","h","e","n">>, <<"W","EH","N">>>>, <<<<"y","o","u","r">>, <<"Y","AO","R">>>>,
    <<<<"c","a","n">>, <<"K","AE","N">>>>, <<<<"s","a","i","d">>, <<"S","EH","D">>>>,
    <<<<"t","h","e","r","e">>, <<"DH","EH","R">>>>, <<<<"u","s","e">>, <<"Y","UW","Z">>>>,
    <<<<"a","n">>, <<"AE","N">>>>, <<<<"e","a","c","h">>, <<"IY","CH">>>>,
    <<<<"w","h","i","c","h">>, <<"W","IH","CH">>>>, <<<<"s","h","e">>, <<"SH","IY">>>>,
    <<<<"d","o">>, <<"D","UW">>>>, <<<<"h","o","w">>, <<"HH","AW">>>>,
    <<<<"t","h","e","i","r">>, <<"DH","EH","R">>>>, <<<<"i","f">>, <<"IH","F">>>>,
    <<<<"u","p">>, <<"AH","P">>>>, <<<<"o","t","h","e","r">>, <<"AH","DH","ER">>>>,
    <<<<"a","b","o","u","t">>, <<"AH","B","AW","T">>>>, <<<<"o","u","t">>, <<"AW","T">>>>,
    <<<<"m","a","n","y">>, <<"M","EH","N","IY">>>>, <<<<"t","h","e","n">>, <<"DH","EH","N">>>>,
    <<<<"t","h","e","m">>, <<"DH","EH","M">>>>, <<<<"t","h","e","s","e">>, <<"DH","IY","Z">>>>,
    <<<<"s","o">>, <<"S","OW">>>>, <<<<"s","o","m","e">>, <<"S","AH","M">>>>,
    <<<<"h","e","r">>, <<"HH","ER">>>>, <<<<"w","o","u","l","d">>, <<"W","UH","D">>>>,
    <<<<"m","a","k","e">>, <<"M","EY","K">>>>, <<<<"h","i","m">>, <<"HH","IH","M">>>>,
    <<<<"i","n","t","o">>, <<"IH","N","T","UW">>>>, <<<<"t","i","m","e">>, <<"T","AY","M">>>>,
    <<<<"h","a","s">>, <<"HH","AE","Z">>>>, <<<<"l","o","o","k">>, <<"L","UH","K">>>>,
    <<<<"t","w","o">>, <<"T","UW">>>>, <<<<"m","o","r","e">>, <<"M","AO","R">>>>,
    <<<<"g","o">>, <<"G","OW">>>>, <<<<"s","e","e">>, <<"S","IY">>>>,
    <<<<"n","o">>, <<"N","OW">>>>, <<<<"w","a","y">>, <<"W","EY">>>>,
    <<<<"c","o","u","l","d">>, <<"K","UH","D">>>>, <<<<"m","y">>, <<"M","AY">>>>,
    <<<<"t","h","a","n">>, <<"DH","AH","N">>>>, <<<<"f","i","r","s","t">>, <<"F","ER","S","T">>>>,
    <<<<"b","e","e","n">>, <<"B","IH","N">>>>, <<<<"c","a","l","l">>, <<"K","AO","L">>>>,
    <<<<"w","h","o">>, <<"HH","UW">>>>, <<<<"i","t","s">>, <<"IH","T","S">>>>,
    <<<<"n","o","w">>, <<"N","AW">>>>, <<<<"g","e","t">>, <<"G","EH","T">>>>,
    <<<<"c","o","m","e">>, <<"K","AH","M">>>>, <<<<"m","a","d","e">>, <<"M","EY","D">>>>,
    <<<<"m","a","y">>, <<"M","EY">>>>, <<<<"p","a","r","t">>, <<"P","AA","R","T">>>>,
    <<<<"o","v","e","r">>, <<"OW","V","ER">>>>, <<<<"n","e","w">>, <<"N","UW">>>>,
    <<<<"s","o","u","n","d">>, <<"S","AW","N","D">>>>, <<<<"t","a","k","e">>, <<"T","EY","K">>>>,
    <<<<"o","n","l","y">>, <<"OW","N","L","IY">>>>, <<<<"l","i","t","t","l","e">>, <<"L","IH","T","AH","L">>>>,
    <<<<"w","o","r","k">>, <<"W","ER","K">>>>, <<<<"k","n","o","w">>, <<"N","OW">>>>,
    <<<<"p","l","a","c","e">>, <<"P","L","EY","S">>>>, <<<<"y","e","a","r">>, <<"Y","IH","R">>>>,
    <<<<"l","i","v","e">>, <<"L","IH","V">>>>, <<<<"b","a","c","k">>, <<"B","AE","K">>>>,
    <<<<"g","i","v","e">>, <<"G","IH","V">>>>, <<<<"m","o","s","t">>, <<"M","OW","S","T">>>>,
    <<<<"v","e","r","y">>, <<"V","EH","R","IY">>>>, <<<<"a","f","t","e","r">>, <<"AE","F","T","ER">>>>,
    <<<<"t","h","i","n","g">>, <<"TH","IH","NG">>>>, <<<<"o","u","r">>, <<"AW","R">>>>,
    <<<<"j","u","s","t">>, <<"JH","AH","S","T">>>>, <<<<"n","a","m","e">>, <<"N","EY","M">>>>,
    <<<<"g","o","o","d">>, <<"G","UH","D">>>>, <<<<"s","e","n","t","e","n","c","e">>, <<"S","EH","N","T","AH","N","S">>>>,
    <<<<"m","a","n">>, <<"M","AE","N">>>>, <<<<"t","h","i","n","k">>, <<"TH","IH","NG","K">>>>,
    <<<<"s","a","y">>, <<"S","EY">>>>, <<<<"g","r","e","a","t">>, <<"G","R","EY","T">>>>,
    <<<<"w","h","e","r","e">>, <<"W","EH","R">>>>, <<<<"h","e","l","p">>, <<"HH","EH","L","P">>>>,
    <<<<"t","h","r","o","u","g","h">>, <<"TH","R","UW">>>>, <<<<"m","u","c","h">>, <<"M","AH","CH">>>>,
    <<<<"b","e","f","o","r","e">>, <<"B","IH","F","AO","R">>>>, <<<<"l","i","n","e">>, <<"L","AY","N">>>>,
    <<<<"r","i","g","h","t">>, <<"R","AY","T">>>>, <<<<"t","o","o">>, <<"T","UW">>>>,
    <<<<"m","e","a","n">>, <<"M","IY","N">>>>, <<<<"o","l","d">>, <<"OW","L","D">>>>,
    <<<<"a","n","y">>, <<"EH","N","IY">>>>, <<<<"s","a","m","e">>, <<"S","EY","M">>>>,
    <<<<"t","e","l","l">>, <<"T","EH","L">>>>, <<<<"b","o","y">>, <<"B","OY">>>>,
    <<<<"f","o","l","l","o","w">>, <<"F","AA","L","OW">>>>, <<<<"c","a","m","e">>, <<"K","EY","M">>>>,
    <<<<"w","a","n","t">>, <<"W","AA","N","T">>>>, <<<<"s","h","o","w">>, <<"SH","OW">>>>,
    <<<<"a","l","s","o">>, <<"AO","L","S","OW">>>>, <<<<"a","r","o","u","n","d">>, <<"AH","R","AW","N","D">>>>,
    <<<<"f","o","r","m">>, <<"F","AO","R","M">>>>, <<<<"t","h","r","e","e">>, <<"TH","R","IY">>>>,
    <<<<"s","m","a","l","l">>, <<"S","M","AO","L">>>>, <<<<"s","e","t">>, <<"S","EH","T">>>>,
    <<<<"p","u","t">>, <<"P","UH","T">>>>, <<<<"e","n","d">>, <<"EH","N","D">>>>,
    <<<<"d","o","e","s">>, <<"D","AH","Z">>>>, <<<<"a","n","o","t","h","e","r">>, <<"AH","N","AH","DH","ER">>>>,
    <<<<"w","e","l","l">>, <<"W","EH","L">>>>, <<<<"l","a","r","g","e">>, <<"L","AA","R","JH">>>>,
    <<<<"o","f","t","e","n">>, <<"AO","F","AH","N">>>>, <<<<"h","a","n","d">>, <<"HH","AE","N","D">>>>,
    <<<<"h","i","g","h">>, <<"HH","AY">>>>, <<<<"h","o","l","d">>, <<"HH","OW","L","D">>>>,
    <<<<"b","e","t","w","e","e","n">>, <<"B","IH","T","W","IY","N">>>>, <<<<"w","o","r","l","d">>, <<"W","ER","L","D">>>>,
    <<<<"h","e","r","e">>, <<"HH","IH","R">>>>, <<<<"h","e","a","d">>, <<"HH","EH","D">>>>,
    <<<<"y","e","t">>, <<"Y","EH","T">>>>, <<<<"l","o","n","g">>, <<"L","AO","NG">>>>,
    <<<<"d","o","w","n">>, <<"D","AW","N">>>>, <<<<"d","a","y">>, <<"D","EY">>>>,
    <<<<"e","v","e","r">>, <<"EH","V","ER">>>>, <<<<"f","o","u","n","d">>, <<"F","AW","N","D">>>>,
    <<<<"s","t","i","l","l">>, <<"S","T","IH","L">>>>, <<<<"p","l","a","n","t">>, <<"P","L","AE","N","T">>>>,
    <<<<"s","h","o","u","l","d">>, <<"SH","UH","D">>>>, <<<<"c","o","u","n","t","r","y">>, <<"K","AH","N","T","R","IY">>>>,
    <<<<"n","e","v","e","r">>, <<"N","EH","V","ER">>>>, <<<<"s","t","a","r","t","e","d">>, <<"S","T","AA","R","T","IH","D">>>>,
    <<<<"c","i","t","y">>, <<"S","IH","T","IY">>>>, <<<<"e","a","r","t","h">>, <<"ER","TH">>>>,
    <<<<"e","y","e">>, <<"AY">>>>, <<<<"l","i","g","h","t">>, <<"L","AY","T">>>>,
    <<<<"t","h","o","u","g","h","t">>, <<"TH","AO","T">>>>, <<<<"n","e","e","d">>, <<"N","IY","D">>>>,
    <<<<"l","a","n","d">>, <<"L","AE","N","D">>>>, <<<<"a","s","k","e","d">>, <<"AE","S","K","T">>>>,
    <<<<"c","h","a","n","g","e">>, <<"CH","EY","N","JH">>>>, <<<<"a","g","a","i","n">>, <<"AH","G","EH","N">>>>,
    <<<<"o","f","f">>, <<"AO","F">>>>, <<<<"p","l","a","y">>, <<"P","L","EY">>>>,
    <<<<"s","p","e","l","l">>, <<"S","P","EH","L">>>>, <<<<"a","i","r">>, <<"EH","R">>>>,
    <<<<"a","w","a","y">>, <<"AH","W","EY">>>>, <<<<"a","n","i","m","a","l">>, <<"AE","N","AH","M","AH","L">>>>,
    <<<<"h","o","u","s","e">>, <<"HH","AW","S">>>>, <<<<"p","o","i","n","t">>, <<"P","OY","N","T">>>>,
    <<<<"p","a","g","e">>, <<"P","EY","JH">>>>, <<<<"l","e","t","t","e","r">>, <<"L","EH","T","ER">>>>,
    <<<<"m","o","t","h","e","r">>, <<"M","AH","DH","ER">>>>, <<<<"a","n","s","w","e","r">>, <<"AE","N","S","ER">>>>,
    <<<<"s","t","u","d","y">>, <<"S","T","AH","D","IY">>>>, <<<<"w","o","r","d">>, <<"W","ER","D">>>>,
    <<<<"f","r","i","e","n","d">>, <<"F","R","EH","N","D">>>>, <<<<"l","e","f","t">>, <<"L","EH","F","T">>>>,
    <<<<"f","e","w">>, <<"F","Y","UW">>>>, <<<<"w","h","i","l","e">>, <<"W","AY","L">>>>,
    <<<<"a","l","o","n","g">>, <<"AH","L","AO","NG">>>>, <<<<"m","i","g","h","t">>, <<"M","AY","T">>>>,
    <<<<"c","l","o","s","e">>, <<"K","L","OW","S">>>>, <<<<"s","o","m","e","t","h","i","n","g">>, <<"S","AH","M","TH","IH","NG">>>>,
    <<<<"o","p","e","n">>, <<"OW","P","AH","N">>>>, <<<<"s","e","e","m">>, <<"S","IY","M">>>>,
    <<<<"t","o","g","e","t","h","e","r">>, <<"T","AH","G","EH","DH","ER">>>>, <<<<"n","e","x","t">>, <<"N","EH","K","S","T">>>>,
    <<<<"w","h","i","t","e">>, <<"W","AY","T">>>>, <<<<"c","h","i","l","d","r","e","n">>, <<"CH","IH","L","D","R","AH","N">>>>,
    <<<<"b","e","g","i","n">>, <<"B","IH","G","IH","N">>>>, <<<<"g","o","t">>, <<"G","AA","T">>>>,
    <<<<"w","a","l","k">>, <<"W","AO","K">>>>, <<<<"e","x","a","m","p","l","e">>, <<"IH","G","Z","AE","M","P","AH","L">>>>,
    <<<<"e","a","s","e">>, <<"IY","Z">>>>, <<<<"p","a","p","e","r">>, <<"P","EY","P","ER">>>>,
    <<<<"g","r","o","u","p">>, <<"G","R","UW","P">>>>, <<<<"a","l","w","a","y","s">>, <<"AO","L","W","EY","Z">>>>,
    <<<<"m","u","s","i","c">>, <<"M","Y","UW","Z","IH","K">>>>, <<<<"t","h","o","s","e">>, <<"DH","OW","Z">>>>,
    <<<<"b","o","t","h">>, <<"B","OW","TH">>>>, <<<<"m","a","r","k">>, <<"M","AA","R","K">>>>,
    <<<<"b","o","o","k">>, <<"B","UH","K">>>>, <<<<"u","n","t","i","l">>, <<"AH","N","T","IH","L">>>>,
    <<<<"m","i","l","e">>, <<"M","AY","L">>>>, <<<<"r","i","v","e","r">>, <<"R","IH","V","ER">>>>,
    <<<<"c","a","r">>, <<"K","AA","R">>>>, <<<<"f","e","e","t">>, <<"F","IY","T">>>>,
    <<<<"c","a","r","e">>, <<"K","EH","R">>>>, <<<<"l","o","w">>, <<"L","OW">>>>,
    <<<<"w","h","y">>, <<"W","AY">>>>, <<<<"p","e","r","s","o","n">>, <<"P","ER","S","AH","N">>>>,
    <<<<"e","n","o","u","g","h">>, <<"IH","N","AH","F">>>>, <<<<"e","a","t">>, <<"IY","T">>>>,
    <<<<"f","a","c","e">>, <<"F","EY","S">>>>, <<<<"w","a","t","c","h">>, <<"W","AA","CH">>>>,
    <<<<"f","a","r">>, <<"F","AA","R">>>>, <<<<"i","n","d","i","a","n">>, <<"IH","N","D","IY","AH","N">>>>,
    <<<<"r","e","a","l">>, <<"R","IY","L">>>>, <<<<"a","l","m","o","s","t">>, <<"AO","L","M","OW","S","T">>>>,
    <<<<"l","e","t">>, <<"L","EH","T">>>>, <<<<"a","b","o","v","e">>, <<"AH","B","AH","V">>>>,
    <<<<"g","i","r","l">>, <<"G","ER","L">>>>, <<<<"s","o","m","e","t","i","m","e","s">>, <<"S","AH","M","T","AY","M","Z">>>>,
    <<<<"m","o","u","n","t","a","i","n">>, <<"M","AW","N","T","AH","N">>>>, <<<<"c","u","t">>, <<"K","AH","T">>>>,
    <<<<"y","o","u","n","g">>, <<"Y","AH","NG">>>>, <<<<"t","a","l","k">>, <<"T","AO","K">>>>,
    <<<<"s","o","o","n">>, <<"S","UW","N">>>>, <<<<"l","i","s","t">>, <<"L","IH","S","T">>>>,
    <<<<"s","o","n","g">>, <<"S","AO","NG">>>>, <<<<"l","e","a","v","e">>, <<"L","IY","V">>>>,
    <<<<"f","a","m","i","l","y">>, <<"F","AE","M","AH","L","IY">>>>, <<<<"b","o","d","y">>, <<"B","AA","D","IY">>>>,
    <<<<"c","o","l","o","r">>, <<"K","AH","L","ER">>>>, <<<<"s","t","a","n","d">>, <<"S","T","AE","N","D">>>>,
    <<<<"s","u","n">>, <<"S","AH","N">>>>, <<<<"q","u","e","s","t","i","o","n","s">>, <<"K","W","EH","S","CH","AH","N","Z">>>>,
    <<<<"f","i","s","h">>, <<"F","IH","SH">>>>, <<<<"a","r","e","a">>, <<"EH","R","IY","AH">>>>,
    <<<<"h","a","p","p","e","n","e","d">>, <<"HH","AE","P","AH","N","D">>>>, <<<<"p","r","o","b","l","e","m">>, <<"P","R","AA","B","L","AH","M">>>>,
    <<<<"y","e","s">>, <<"Y","EH","S">>>>, <<<<"a","g","o">>, <<"AH","G","OW">>>>,
    <<<<"s","i","d","e">>, <<"S","AY","D">>>>, <<<<"k","n","e","w">>, <<"N","UW">>>>,
    <<<<"l","o","v","e">>, <<"L","AH","V">>>>, <<<<"c","r","o","s","s">>, <<"K","R","AO","S">>>>,
    <<<<"s","p","e","a","k">>, <<"S","P","IY","K">>>>, <<<<"r","u","n">>, <<"R","AH","N">>>>,
    <<<<"e","a","s","y">>, <<"IY","Z","IY">>>>, <<<<"w","r","i","t","e">>, <<"R","AY","T">>>>,
    <<<<"a","l","r","e","a","d","y">>, <<"AO","L","R","EH","D","IY">>>>, <<<<"s","t","o","p">>, <<"S","T","AA","P">>>>,
    <<<<"o","n","c","e">>, <<"W","AH","N","S">>>>, <<<<"i","d","e","a">>, <<"AY","D","IY","AH">>>>,
    <<<<"e","v","e","r","y">>, <<"EH","V","R","IY">>>>, <<<<"f","i","r","e">>, <<"F","AY","R">>>>,
    <<<<"d","r","a","w">>, <<"D","R","AO">>>>, <<<<"u","n","d","e","r">>, <<"AH","N","D","ER">>>>,
    <<<<"b","l","a","c","k">>, <<"B","L","AE","K">>>>, <<<<"r","e","a","d">>, <<"R","IY","D">>>>,
    <<<<"s","h","o","r","t">>, <<"SH","AO","R","T">>>>, <<<<"n","u","m","e","r","a","l">>, <<"N","UW","M","ER","AH","L">>>>,
    <<<<"h","e","a","r">>, <<"HH","IH","R">>>>, <<<<"l","a","t","e","r">>, <<"L","EY","T","ER">>>>,
    <<<<"m","i","s","s">>, <<"M","IH","S">>>>, <<<<"t","r","u","e">>, <<"T","R","UW">>>>,
    <<<<"l","i","f","e">>, <<"L","AY","F">>>>, <<<<"r","e","d">>, <<"R","EH","D">>>>,
    <<<<"d","o","o","r">>, <<"D","AO","R">>>>, <<<<"s","u","r","e">>, <<"SH","UH","R">>>>,
    <<<<"b","e","c","o","m","e">>, <<"B","IH","K","AH","M">>>>, <<<<"h","e","l","l","o">>, <<"HH","AH","L","OW">>>>,
    <<<<"g","o","o","d","b","y","e">>, <<"G","UH","D","B","AY">>>>, <<<<"p","l","e","a","s","e">>, <<"P","L","IY","Z">>>>,
    <<<<"t","h","a","n","k">>, <<"TH","AE","NG","K">>>>, <<<<"t","h","a","n","k","s">>, <<"TH","AE","NG","K","S">>>>,
    <<<<"s","o","r","r","y">>, <<"S","AO","R","IY">>>>, <<<<"o","k","a","y">>, <<"OW","K","EY">>>>,
    <<<<"a","v","a","t","a","r">>, <<"AE","V","AH","T","AA","R">>>>, <<<<"s","p","e","a","k","i","n","g">>, <<"S","P","IY","K","IH","NG">>>>,
    <<<<"l","i","s","t","e","n","i","n","g">>, <<"L","IH","S","AH","N","IH","NG">>>>, <<<<"w","e","l","c","o","m","e">>, <<"W","EH","L","K","AH","M">>>>,
    <<<<"u","n","d","e","r","s","t","a","n","d">>, <<"AH","N","D","ER","S","T","AE","N","D">>>>
  >>

WordDictKeys == {WORD_DICT_ENTRIES[i][1] : i \in 1..Len(WORD_DICT_ENTRIES)}
\* WORD_DICT[lower]
WORD_DICT(w) ==
  WORD_DICT_ENTRIES[CHOOSE i \in 1..Len(WORD_DICT_ENTRIES) : WORD_DICT_ENTRIES[i][1] = w][2]

-----------------------------------------------------------------------------
(* 3. Rule-based G2P                                                       *)

\* applyRules: the first rule whose pattern matches the start of s, as
\* <<rhubarb, advance>>, or <<>> for null
applyRules(s) ==
  LET p2 == Prefix(s, 2)
      p3 == Prefix(s, 3)
      c  == IF s = <<>> THEN "" ELSE toLowerCase(s[1])
      l2 == [i \in 1..Len(p2) |-> toLowerCase(p2[i])]
      l3 == [i \in 1..Len(p3) |-> toLowerCase(p3[i])]
  IN  IF l2 \in {<<"t","h">>, <<"d","h">>} THEN <<"D", 2>>
      ELSE IF l2 \in {<<"s","h">>, <<"z","h">>} THEN <<"H", 2>>
      ELSE IF l2 = <<"c","h">> THEN <<"H", 2>>
      ELSE IF l2 = <<"p","h">> THEN <<"F", 2>>
      ELSE IF l2 = <<"w","h">> THEN <<"G", 2>>
      ELSE IF l2 \in {<<"n","g">>, <<"n","k">>} THEN <<"G", 2>>
      ELSE IF l2 = <<"c","k">> THEN <<"G", 2>>
      ELSE IF l2 = <<"q","u">> THEN <<"G", 2>>
      ELSE IF l2 \in {<<"e","e">>, <<"e","a">>, <<"e","y">>, <<"e","i">>, <<"i","e">>}
        THEN <<"H", 2>>
      ELSE IF l2 \in {<<"o","a">>, <<"o","e">>, <<"o","o">>, <<"o","u">>,
                      <<"o","w">>, <<"u","e">>, <<"u","i">>}
        THEN <<"C", 2>>
      ELSE IF l2 \in {<<"a","i">>, <<"a","y">>, <<"a","u">>, <<"a","w">>}
              \/ l3 = <<"a","_","e">>
        THEN <<"A", 2>>
      ELSE IF c \in {"b","m","p"} THEN <<"B", 1>>
      ELSE IF c \in {"f","v"} THEN <<"F", 1>>
      ELSE IF c \in {"s","z","j","x"} THEN <<"H", 1>>
      ELSE IF c \in {"k","g"} THEN <<"G", 1>>
      ELSE IF c \in {"d","t"} THEN <<"D", 1>>
      ELSE IF c = "n" THEN <<"D", 1>>
      ELSE IF c \in {"l","r"} THEN <<"C", 1>>
      ELSE IF c = "w" THEN <<"G", 1>>
      ELSE IF c = "y" THEN <<"H", 1>>
      ELSE IF c = "h" THEN <<"H", 1>>
      ELSE IF c \in {"a","e","i","o","u"} THEN <<"A", 1>>
      ELSE <<>>

\* STRESS_SCALE with the entries of primary stress and no stress exchanged
STRESS_SCALE_Exchanged(stress) ==
  CASE stress = 1  -> <<13, 20>>
    [] stress = 2  -> <<23, 20>>
    [] stress = 0  -> <<29, 20>>
    [] stress = -1 -> <<1, 1>>

\* Stress multipliers, as rationals; stress -1 is the consonant entry
STRESS_SCALE(stress) ==
  CASE stress = 1  -> <<29, 20>>
    [] stress = 2  -> <<23, 20>>
    [] stress = 0  -> <<13, 20>>
    [] stress = -1 -> <<1, 1>>

\* Vowel shapes hold longer than consonants
isVowel(rhubarb) == rhubarb \in {"A", "C", "E", "H"}

\* arpa.match(/([012])$/) and arpa.replace(/[0-9]/g, ''): a symbol of the
\* table followed by one stress digit carries that stress; any other symbol
\* carries none (-1) and is its own base
ArpaStress(arpa) ==
  IF \E b \in DOMAIN ARPABET_TO_RHUBARB : arpa = b \o "1" THEN 1
  ELSE IF \E b \in DOMAIN ARPABET_TO_RHUBARB : arpa = b \o "2" THEN 2
  ELSE IF \E b \in DOMAIN ARPABET_TO_RHUBARB : arpa = b \o "0" THEN 0
  ELSE -1
ArpaBase(arpa) ==
  IF ArpaStress(arpa) = -1 THEN arpa
  ELSE CHOOSE b \in DOMAIN ARPABET_TO_RHUBARB : \E d \in {"0", "1", "2"} : arpa = b \o d

\* the dictionary branch without the ARPAbet -> Rhubarb table
DictTokens_Arpa(dictEntry) ==
  [i \in 1..Len(dictEntry) |->
     [r |-> ArpaBase(dictEntry[i]), stress |-> ArpaStress(dictEntry[i])]]

\* the dictionary branch of wordToRhubarb
DictTokens(dictEntry) ==
  [i \in 1..Len(dictEntry) |->
     LET base == ArpaBase(dictEntry[i])
     IN  [r |-> IF base \in DOMAIN ARPABET_TO_RHUBARB
                  THEN ARPABET_TO_RHUBARB[base] ELSE "A",
          stress |-> ArpaStress(dictEntry[i])]]

SafetyLimit == 60

\* the G2P loop of wordToRhubarb: remaining, safety, vowelSeen, result
RECURSIVE G2PLoop(_, _, _, _)
G2PLoop(remaining, safety, vowelSeen, result) ==
  \* (an iteration pushes at most one token: Len(result) <= safety always)
  IF ~(Len(remaining) > 0 /\ safety < SafetyLimit /\ Len(result) <= safety)
    THEN result
  ELSE LET match == applyRules(remaining)
       IN  IF match # <<>>
             THEN LET r == match[1]
                      isVow == r \in {"A", "C", "E", "H"}
                      stress == IF isVow THEN (IF vowelSeen THEN 0 ELSE 1) ELSE -1
                  IN  G2PLoop(Slice(remaining, match[2]), safety + 1,
                              vowelSeen \/ isVow,
                              Append(result, [r |-> r, stress |-> stress]))
             ELSE G2PLoop(Slice(remaining, 1), safety + 1, vowelSeen, result)

\* word.toLowerCase().replace(/[^a-z]/g, '')
LowerOf(word) == KeepOnly([i \in 1..Len(word) |-> toLowerCase(word[i])], LowerLetters)

\* WORD_DICT is an object literal, so WORD_DICT[lower] also finds what the
\* literal inherits from Object.prototype.  Of those names only this one is
\* made of lower-case letters; its value is a function (truthy, no .map)
OBJECT_PROTOTYPE_KEYS == { <<"c","o","n","s","t","r","u","c","t","o","r">> }

\* dictEntry.map is not a function: wordToRhubarb throws a TypeError
wordToRhubarbThrows(word) == LowerOf(word) \in OBJECT_PROTOTYPE_KEYS

\* the tokens wordToRhubarb returns when it does not throw
wordToRhubarb(word) ==
  LET lower == LowerOf(word)
  IN  IF lower = <<>> THEN <<>>
      ELSE IF lower \in WordDictKeys THEN DictTokens(WORD_DICT(lower))
      ELSE LET result == G2PLoop(lower, 0, FALSE, <<>>)
           IN  IF Len(result) > 0 THEN result
               ELSE <<[r |-> "A", stress |-> 1], [r |-> "X", stress |-> -1]>>

-----------------------------------------------------------------------------
(* 4. estimateWithCMU                                                      *)

SENTENCE_PAUSE == <<11, 50>>   \* 0.22
CLAUSE_PAUSE   == <<1, 10>>    \* 0.10
WORD_PAUSE     == <<3, 100>>   \* 0.03
MIN_PHONEME_DUR == <<3, 100>>  \* 0.030
PAUSE_CUE_MIN  == <<1, 100>>   \* pauseDur > 0.01
OVERSHOOT_TOL  == <<1, 100>>   \* currentTime > durationSeconds + 0.01
MIN_LAST_CUE   == <<1, 50>>    \* lastCue.start + 0.02

\* text.replace(/\s+/g, ' ').trim().split(/\s+/): the chunks of the text;
\* the empty text splits into one empty chunk
SplitChunks(t) == IF t = <<>> THEN << <<>> >> ELSE t

\* raw.slice(-1), "" for the empty chunk
LastChar(raw) == IF raw = <<>> THEN "" ELSE raw[Len(raw)]

\* the .map() of the tokeniser: { word: cleanWord, rawPause }
RawToken(raw) ==
  LET lastChar == LastChar(raw)
      cleanWord == KeepOnly(raw, LowerLetters \cup UpperLetters \cup {"'"})
  IN  [word |-> cleanWord,
       rawPause |-> IF lastChar \in {"", ".", "!", "?", "..."} THEN SENTENCE_PAUSE
                    ELSE IF lastChar \in {",", ";", ":", "--"} THEN CLAUSE_PAUSE
                    ELSE WORD_PAUSE]

\* the .filter((t) => t.word.length > 0)
RECURSIVE FilterWords(_)
FilterWords(ts) ==
  IF ts = <<>> THEN <<>>
  ELSE IF Len(Head(ts).word) > 0 THEN <<Head(ts)>> \o FilterWords(Tail(ts))
  ELSE FilterWords(Tail(ts))

rawTokens(t) ==
  LET chunks == SplitChunks(t)
  IN  FilterWords([i \in 1..Len(chunks) |-> RawToken(chunks[i])])

RECURSIVE RSum(_)
RSum(s) == IF s = <<>> THEN Zero ELSE RAdd(Head(s), RSum(Tail(s)))

INITIAL_SILENCE(D) == RMin(<<1, 50>>, RMul(D, <<3, 100>>))
phaseTime(D) == RSub(D, INITIAL_SILENCE(D))

ShapeMul(r) == IF isVowel(r) THEN <<6, 5>> ELSE <<4, 5>>
PhonemeWeight(p) == RMul(STRESS_SCALE(p.stress), ShapeMul(p.r))

\* tokens: rawTokens with scaledPause and phonemes
Tokens(t, D) ==
  LET raw == rawTokens(t)
      totalRaw == RSum([i \in 1..Len(raw) |-> raw[i].rawPause])
      PAUSE_BUDGET == RMul(phaseTime(D), <<4, 25>>)
      pauseScale == RDiv(PAUSE_BUDGET, RMax(totalRaw, <<1, 1000>>))
  IN  [i \in 1..Len(raw) |->
         [word |-> raw[i].word, rawPause |-> raw[i].rawPause,
          scaledPause |-> RMul(raw[i].rawPause, pauseScale),
          phonemes |-> wordToRhubarb(raw[i].word)]]

totalWeightedPhonemes(tokens) ==
  RSum([i \in 1..Len(tokens) |->
          RSum([j \in 1..Len(tokens[i].phonemes) |-> PhonemeWeight(tokens[i].phonemes[j])])])

baseTimePerUnit(tokens, D) ==
  RDiv(RMul(phaseTime(D), <<21, 25>>), RMax(totalWeightedPhonemes(tokens), <<1, 1>>))

\* duration given to one phoneme token
PhonemeDur(p, base) ==
  RMax(RMul(RMul(base, STRESS_SCALE(p.stress)), ShapeMul(p.r)), MIN_PHONEME_DUR)

\* the inner loop: one cue per phoneme; st = [cues, currentTime]
RECURSIVE PhonemeCues(_, _, _)
PhonemeCues(phonemes, base, st) ==
  IF phonemes = <<>> THEN st
  ELSE LET dur == PhonemeDur(Head(phonemes), base)
       IN  PhonemeCues(Tail(phonemes), base,
             [cues |-> Append(st.cues, [start |-> st.currentTime,
                                        end |-> RAdd(st.currentTime, dur),
                                        value |-> Head(phonemes).r]),
              currentTime |-> RAdd(st.currentTime, dur)])

\* the post-word pause: a silence cue only for perceptible gaps, the time
\* advances either way
PauseCue(pauseDur, st) ==
  [cues |-> IF RLt(PAUSE_CUE_MIN, pauseDur)
              THEN Append(st.cues, [start |-> st.currentTime,
                                    end |-> RAdd(st.currentTime, pauseDur),
                                    value |-> "X"])
              ELSE st.cues,
   currentTime |-> RAdd(st.currentTime, pauseDur)]

\* the outer loop over the tokens
RECURSIVE BuildCues(_, _, _)
BuildCues(tokens, base, st) ==
  IF tokens = <<>> THEN st
  ELSE BuildCues(Tail(tokens), base,
         PauseCue(Head(tokens).scaledPause,
                  PhonemeCues(Head(tokens).phonemes, base, st)))

\* 4. Align final cue to exact audio duration
AlignFinalCue(st, D, below) ==
  LET cues == st.cues
      n == Len(cues)
      lastCue == cues[n]
      currentTime == st.currentTime
  IN  IF n = 0 THEN cues
      ELSE IF RLt(currentTime, D) \/ (currentTime = D /\ below)
        THEN [cues EXCEPT ![n].end = D]
      ELSE IF RLt(RAdd(D, OVERSHOOT_TOL), currentTime)
        THEN LET overshoot == RSub(currentTime, D)
                 newEnd == RMax(RAdd(lastCue.start, MIN_LAST_CUE),
                                RSub(lastCue.end, overshoot))
                 cut == [cues EXCEPT ![n].end = newEnd]
             IN  IF RLt(newEnd, D)
                   THEN Append(cut, [start |-> newEnd, end |-> D, value |-> "X"])
                   ELSE cut
      ELSE cues

\* the cues before the final alignment
UnalignedCues(t, D) ==
  LET tokens == Tokens(t, D)
  IN  BuildCues(tokens, baseTimePerUnit(tokens, D),
                [cues |-> <<>>, currentTime |-> INITIAL_SILENCE(D)])

\* estimateWithCMU without the early return for a text without words
estimateWithCMU_NoEarlyReturn(t, D, below) ==
  AlignFinalCue(UnalignedCues(t, D), D, below)

estimateWithCMU(t, D, below) ==
  IF rawTokens(t) = <<>>
    THEN <<[start |-> Zero, end |-> D, value |-> "X"]>>
    ELSE AlignFinalCue(UnalignedCues(t, D), D, below)

\* the rawTokens.map(... wordToRhubarb(t.word) ...) throws
estimateWithCMUThrows(t) ==
  \E i \in 1..Len(rawTokens(t)) : wordToRhubarbThrows(rawTokens(t)[i].word)

-----------------------------------------------------------------------------
(* Inputs of the estimator                                                 *)

MaxWords == 2
MaxHalvings == 5

VocabWords ==
  { <<"H","e","l","l","o">>, <<"b","a","n","a","n","a">>, <<"m","a">>,
    <<"m">>, <<"'">> }
Trailing == { <<>>, <<".">>, <<",">> }
Constructor == <<"c","o","n","s","t","r","u","c","t","o","r">>
Chunks == {w \o p : w \in VocabWords, p \in Trailing} \cup { <<".">>, Constructor }

Texts == UNION {[1..n -> Chunks] : n \in 0..MaxWords}
Durations == {Rat(2, 2^k) : k \in 0..MaxHalvings} \cup {Zero}

Estimate ==
  /\ cmuPc = "input"
  /\ IF estimateWithCMUThrows(text)
       THEN /\ cmuPc' = "threw"
            /\ UNCHANGED mouthCues
       ELSE /\ mouthCues' = estimateWithCMU(text, durationSeconds, roundsBelow)
            /\ cmuPc' = "done"
  /\ UNCHANGED <<text, durationSeconds, roundsBelow>>
  /\ UNCHANGED <<envVars, hookVars, g2pVars, avatarVars, rhubarbVars, routeVars, cacheVars, convVars>>

-----------------------------------------------------------------------------
(* Properties of estimateWithCMU                                           *)

Done == cmuPc = "done"
Hello == <<"H","e","l","l","o">>
CueDur(c) == RSub(c.end, c.start)
LastCue == mouthCues[Len(mouthCues)]

\* some chunk of the text holds a letter
ContainsWord(t) ==
  \E i \in 1..Len(t) : \E k \in 1..Len(t[i]) : t[i][k] \in LowerLetters \cup UpperLetters

\* the stress of the token behind each cue of the unaligned timeline
\* (9 for a silence cue, which has no token)
RECURSIVE StressTags(_)
StressTags(tokens) ==
  IF tokens = <<>> THEN <<>>
  ELSE [j \in 1..Len(Head(tokens).phonemes) |-> Head(tokens).phonemes[j].stress]
       \o (IF RLt(PAUSE_CUE_MIN, Head(tokens).scaledPause) THEN <<9>> ELSE <<>>)
       \o StressTags(Tail(tokens))

CueStress == StressTags(Tokens(text, durationSeconds))

\* C1: for a text with at least one word and D > 0 the last cue ends at D
C1_DurationExact ==
  (Done /\ ContainsWord(text) /\ RLt(Zero, durationSeconds))
    => (Len(mouthCues) > 0 /\ LastCue.end = durationSeconds)

\* C2: for D > 0 the first cue starts at >= 0 and every later cue starts
\* where the previous one ends
C2_Contiguous ==
  (Done /\ RLt(Zero, durationSeconds))
     => /\ (Len(mouthCues) > 0 => RLe(Zero, mouthCues[1].start))
        /\ \A i \in 2..Len(mouthCues) : mouthCues[i].start = mouthCues[i-1].end

HelloTokens == wordToRhubarb(Hello)
HelloPrimary == {i \in 1..Len(HelloTokens) : HelloTokens[i].stress = 1}

\* C9: "Hello", D = 1.0: exactly one Primary-stressed vowel token; the
\* timeline starts at <= 0.03, ends at exactly 1.0, has no overlap, and the
\* stressed-vowel cue is strictly longer than the cues of HH and L
C9_HelloScenario ==
  (Done /\ text = <<Hello>> /\ durationSeconds = <<1, 1>>)
    => /\ Cardinality(HelloPrimary) = 1
       /\ \A i \in HelloPrimary : isVowel(HelloTokens[i].r)
       /\ RLe(mouthCues[1].start, <<3, 100>>)
       /\ LastCue.end = <<1, 1>>
       /\ \A i \in 2..Len(mouthCues) : RLe(mouthCues[i-1].end, mouthCues[i].start)
       /\ \A i \in HelloPrimary : \A j \in {1, 3} :
            RLt(CueDur(mouthCues[j]), CueDur(mouthCues[i]))

\* C10: for D > 0 the returned timeline has at least one cue
C10_NonEmpty == (Done /\ RLt(Zero, durationSeconds)) => Len(mouthCues) >= 1

\* the one silence cue spanning [0, D]
\* C22: every phoneme (non-silence) cue of a returned timeline lasts at
\* least 30 ms, the last cue after the final alignment included
C22_MinCueDuration ==
  (Done /\ RLt(Zero, durationSeconds)) => \A i \in 1..Len(mouthCues) :
            mouthCues[i].value # "X" => RLe(MIN_PHONEME_DUR, CueDur(mouthCues[i]))

SilenceCue(D) == <<[start |-> Zero, end |-> D, value |-> "X"]>>

\* estimateWithCMU has returned or thrown
Returned == cmuPc \in {"done", "threw"}

\* C11: for D = 0 and any text the estimator returns exactly one silence
\* cue spanning [0, D], and raises no error
C11_ZeroDurationSilence ==
  (Returned /\ durationSeconds = Zero)
     => (cmuPc = "done" /\ mouthCues = SilenceCue(Zero))

\* no chunk of the text holds a letter or an apostrophe
NoWordIn(t) ==
  \A i \in 1..Len(t) : \A k \in 1..Len(t[i]) :
     t[i][k] \notin LowerLetters \cup UpperLetters \cup {"'"}

\* C12: for a text with no word in it and any duration D, estimateWithCMU
\* returns exactly one cue {start: 0, end: D, value: X}
C12_NoWordSingleSilence ==
  (Returned /\ NoWordIn(text))
     => (cmuPc = "done" /\ mouthCues = SilenceCue(durationSeconds))

\* a text of punctuation only, with D > 0, has been answered with the one
\* silence cue
C12_Witness ==
  /\ Done /\ Len(text) >= 1 /\ NoWordIn(text)
  /\ RLt(Zero, durationSeconds)
  /\ mouthCues = SilenceCue(durationSeconds)

\* C20: every cue estimateWithCMU emits has a value in {A, ..., H, X}
C20_ClosedAlphabet ==
  Done => \A i \in 1..Len(mouthCues) : mouthCues[i].value \in Visemes

\* a timeline from a dictionary word and a G2P word, with a silence cue
C20_Witness ==
  /\ Done
  /\ \E i, j \in 1..Len(text) :
        /\ LowerOf(text[i]) \in WordDictKeys
        /\ LowerOf(text[j]) \notin WordDictKeys /\ LowerOf(text[j]) # <<>>
  /\ \E i \in 1..Len(mouthCues) : mouthCues[i].value = "X"
  /\ \E i \in 1..Len(mouthCues) : mouthCues[i].value # "X"

-----------------------------------------------------------------------------
(* wordToRhubarb on its own                                                *)

MaxWordLen == 3
G2PAlphabet == {"a", "c", "h", "q", "t", "u"}
\* short words over G2PAlphabet, words longer than the loop's safety limit,
\* dictionary words, and the inherited name
G2PWords ==
  UNION {[1..n -> G2PAlphabet] : n \in 1..MaxWordLen}
    \cup {[i \in 1..(SafetyLimit + 2) |-> l] : l \in G2PAlphabet}
    \cup {LowerOf(Hello), <<"t","h","e">>, Constructor}

WordToRhubarb ==
  /\ g2pPc = "input"
  /\ IF wordToRhubarbThrows(g2pWord)
       THEN /\ g2pPc' = "threw"
            /\ UNCHANGED g2pResult
       ELSE /\ g2pResult' = wordToRhubarb(g2pWord)
            /\ g2pPc' = "done"
  /\ UNCHANGED g2pWord
  /\ UNCHANGED <<cmuVars, envVars, hookVars, avatarVars, rhubarbVars, routeVars, cacheVars, convVars>>

\* no rule matches at any position of the word
NoRuleMatches(w) == \A k \in 0..(Len(w) - 1) : applyRules(Slice(w, k)) = <<>>

\* C19: for every non-empty word of lower-case letters wordToRhubarb
\* returns without throwing, with at least one token, and with the default
\* pair (A, X) when no rule matches any character
C19_WordToRhubarbTotal ==
  (g2pPc # "input")
     => /\ g2pPc = "done"
        /\ Len(g2pResult) >= 1
        /\ NoRuleMatches(g2pWord)
              => g2pResult = <<[r |-> "A", stress |-> 1], [r |-> "X", stress |-> -1]>>

VowelLetters == {"a", "e", "i", "o", "u"}

\* the stress tags of a fallback word as the rules' own classes give them:
\* a match is a vowel match when the matched pattern is a vowel pattern,
\* that is, when it starts with a vowel letter
RECURSIVE FallbackTags(_, _)
FallbackTags(remaining, vowelSeen) ==
  IF remaining = <<>> THEN <<>>
  ELSE LET match == applyRules(remaining)
       IN  IF match = <<>> THEN FallbackTags(Slice(remaining, 1), vowelSeen)
           ELSE LET isV == remaining[1] \in VowelLetters
                IN  <<IF isV THEN (IF vowelSeen THEN 0 ELSE 1) ELSE -1>>
                      \o FallbackTags(Slice(remaining, match[2]), vowelSeen \/ isV)

\* C23: in a word that is not in the dictionary the first vowel match is
\* tagged 1 (Primary), every later vowel match 0 (Unstressed) and every
\* consonant match -1 (NotApplicable)
C23_FallbackStressTags ==
  (/\ g2pPc = "done"
   /\ g2pWord \notin WordDictKeys
   /\ Len(g2pWord) <= SafetyLimit
   /\ ~NoRuleMatches(g2pWord))
    => [i \in 1..Len(g2pResult) |-> g2pResult[i].stress] = FallbackTags(g2pWord, FALSE)

-----------------------------------------------------------------------------
(* AudioManager.extractAmplitudeEnvelope                                    *)

PCM_FULL_SCALE == 32768
\* Math.sqrt, rounded down to a multiple of 1/SqrtPrecision
SqrtPrecision == 10000

\* the largest r in lo..hi with r * r <= n, by bisection
RECURSIVE ISqrtIn(_, _, _)
ISqrtIn(n, lo, hi) ==
  IF lo >= hi THEN lo
  ELSE LET mid == (lo + hi + 1) \div 2
       IN  IF mid * mid <= n THEN ISqrtIn(n, mid, hi) ELSE ISqrtIn(n, lo, mid - 1)

\* sqrt(x) for a rational 0 <= x <= 1; exact when x is the square of a
\* multiple of 1/SqrtPrecision, rounded down otherwise
RSqrt(x) ==
  LET scaled == (x[1] * SqrtPrecision) \div x[2]
      n == scaled * SqrtPrecision
  IN  Rat(ISqrtIn(n, 0, SqrtPrecision), SqrtPrecision)

\* sum of (pcm16[i] / 32768)^2 for i in lo..hi (1-based, inclusive)
RECURSIVE SumSq(_, _, _)
SumSq(pcm, lo, hi) ==
  IF lo > hi THEN Zero
  ELSE RAdd(RMul(<<pcm[lo], PCM_FULL_SCALE>>, <<pcm[lo], PCM_FULL_SCALE>>),
            SumSq(pcm, lo + 1, hi))

CeilDiv(a, b) == (a + b - 1) \div b

\* Per-frame RMS (frame f is 0-based as in the code)
FrameRMS(pcm, spf, f) ==
  LET start == f * spf
      end == IF start + spf < Len(pcm) THEN start + spf ELSE Len(pcm)
  IN  RSqrt(RDiv(SumSq(pcm, start + 1, end), <<end - start, 1>>))

RECURSIVE RMaxOf(_)
RMaxOf(s) == IF s = <<>> THEN Zero ELSE RMax(Head(s), RMaxOf(Tail(s)))

\* 0 / 0 in floating point
NaN == <<0, 0>>

\* the normalisation without its guard "if (peak > 0)"
PeakNormalise_Unguarded(env) ==
  LET peak == RMaxOf(env)
  IN  [i \in 1..Len(env) |-> IF peak = Zero THEN NaN ELSE RDiv(env[i], peak)]

\* Normalise to [0, 1] relative to the loudest frame
PeakNormalise(env) ==
  LET peak == RMaxOf(env)
  IN  IF RLt(Zero, peak) THEN [i \in 1..Len(env) |-> RDiv(env[i], peak)] ELSE env

\* the in-place 3-tap average: for (i = 1; i < numFrames - 1; i++), where
\* envelope[i - 1] is already smoothed; i is the 1-based index here
RECURSIVE Smooth3(_, _)
Smooth3(env, i) ==
  IF i > Len(env) - 1 THEN env
  ELSE Smooth3([env EXCEPT ![i] =
                  RMul(RAdd(RAdd(env[i-1], env[i]), env[i+1]), <<1, 3>>)], i + 1)

extractAmplitudeEnvelope(pcm, spf) ==
  LET numFrames == CeilDiv(Len(pcm), spf)
      rms == [f \in 1..numFrames |-> FrameRMS(pcm, spf, f - 1)]
  IN  Smooth3(PeakNormalise(rms), 2)

\* Inputs: Int16 samples on a coarse grid, short buffers
MaxSamples == 4
MaxSamplesPerFrame == 2
PcmValues == {-32768, -16384, 0, 8192, 16384}
PcmBuffers == UNION {[1..n -> PcmValues] : n \in 0..MaxSamples}

ExtractEnvelope ==
  /\ envPc = "input"
  /\ envelope' = extractAmplitudeEnvelope(pcm16, samplesPerFrame)
  /\ envPc' = "done"
  /\ UNCHANGED <<pcm16, samplesPerFrame>>
  /\ UNCHANGED <<cmuVars, hookVars, g2pVars, avatarVars, rhubarbVars, routeVars, cacheVars, convVars>>

\* C7: for a buffer with at least one non-zero sample the maximum of the
\* returned envelope is 1.0
C7_EnvelopePeakIsOne ==
  (envPc = "done" /\ \E i \in 1..Len(pcm16) : pcm16[i] # 0)
    => RMaxOf(envelope) = <<1, 1>>

Silent(pcm) == \A i \in 1..Len(pcm) : pcm[i] = 0

\* C21: for an empty or all-zero buffer the envelope has one element per
\* frame (none for the empty buffer) and every element is the finite value 0
C21_SilentEnvelopeIsZero ==
  (envPc = "done" /\ Silent(pcm16))
    => /\ Len(envelope) = CeilDiv(Len(pcm16), samplesPerFrame)
       /\ \A i \in 1..Len(envelope) : envelope[i] = Zero

\* a silent buffer of several frames went through the normalisation and
\* the smoothing
C21_Witness ==
  /\ envPc = "done" /\ Silent(pcm16)
  /\ Len(pcm16) = MaxSamples /\ samplesPerFrame = 1
  /\ Len(envelope) >= 3
  /\ \A i \in 1..Len(envelope) : envelope[i] = Zero


-----------------------------------------------------------------------------
(* PhonemeService.estimateFromText (phoneme-service.ts), served by          *)
(* POST /api/phonemes/estimate                                              *)

\* estimateWordPhonemes: one letter per character, "th" as one; i is 1-based
RECURSIVE estimateWordPhonemes(_, _)
estimateWordPhonemes(lower, i) ==
  IF i > Len(lower) THEN <<>>
  ELSE LET char == lower[i]
           nextChar == IF i < Len(lower) THEN lower[i + 1] ELSE ""
       IN  IF i > 1 /\ lower[i - 1] = "t" /\ char = "h"
             THEN estimateWordPhonemes(lower, i + 1)
           ELSE IF char = "t" /\ nextChar = "h"
             THEN <<"G">> \o estimateWordPhonemes(lower, i + 2)
           ELSE IF char \in {"m", "b", "p"} THEN <<"B">> \o estimateWordPhonemes(lower, i + 1)
           ELSE IF char \in {"f", "v"} THEN <<"F">> \o estimateWordPhonemes(lower, i + 1)
           ELSE IF char \in {"w", "d"} THEN <<"D">> \o estimateWordPhonemes(lower, i + 1)
           ELSE IF char \in {"l", "r"} THEN <<"C">> \o estimateWordPhonemes(lower, i + 1)
           ELSE IF char \in {"s", "z"} THEN <<"H">> \o estimateWordPhonemes(lower, i + 1)
           ELSE IF char \in {"a", "e", "i", "o", "u"}
             THEN (IF char \in {"a", "e"} THEN <<"A">>
                   ELSE IF char \in {"o", "u"} THEN <<"E">>
                   ELSE <<"H">>) \o estimateWordPhonemes(lower, i + 1)
           ELSE <<"C">> \o estimateWordPhonemes(lower, i + 1)

WordPhonemes(word) ==
  LET ps == estimateWordPhonemes([i \in 1..Len(word) |-> toLowerCase(word[i])], 1)
  IN  IF ps = <<>> THEN <<"A", "X">> ELSE ps

\* the cues of one word, then its rest cue; st = [cues, currentTime]
RECURSIVE TextPhonemeCues(_, _, _)
TextPhonemeCues(phonemes, timePerPhoneme, st) ==
  IF phonemes = <<>> THEN st
  ELSE TextPhonemeCues(Tail(phonemes), timePerPhoneme,
         [cues |-> Append(st.cues, [start |-> st.currentTime,
                                    end |-> RAdd(st.currentTime, timePerPhoneme),
                                    value |-> Head(phonemes)]),
          currentTime |-> RAdd(st.currentTime, timePerPhoneme)])

RECURSIVE TextWordCues(_, _, _)
TextWordCues(words, timePerWord, st) ==
  IF words = <<>> THEN st
  ELSE LET phonemes == WordPhonemes(Head(words))
           n == IF Len(phonemes) > 1 THEN Len(phonemes) ELSE 1
           timePerPhoneme == RMul(RMul(timePerWord, <<9, 10>>), <<1, n>>)
           spoken == TextPhonemeCues(phonemes, timePerPhoneme, st)
           pauseDuration == RMul(timePerWord, <<1, 10>>)
       IN  TextWordCues(Tail(words), timePerWord,
             [cues |-> Append(spoken.cues,
                              [start |-> spoken.currentTime,
                               end |-> RAdd(spoken.currentTime, pauseDuration),
                               value |-> "X"]),
              currentTime |-> RAdd(spoken.currentTime, pauseDuration)])

\* t is the sequence of the non-empty whitespace-separated words of the text
estimateFromText(t, D) ==
  IF t = <<>> THEN <<[start |-> Zero, end |-> D, value |-> "X"]>>
  ELSE TextWordCues(t, RMul(D, <<1, Len(t)>>),
                    [cues |-> <<>>, currentTime |-> Zero]).cues

\* POST /api/phonemes/estimate: 400 without text or with duration <= 0
EstimateRoute(t, D) ==
  IF t = <<>> \/ RLe(D, Zero) THEN [ok |-> FALSE, mouthCues |-> <<>>]
  ELSE [ok |-> TRUE, mouthCues |-> estimateFromText(t, D)]

-----------------------------------------------------------------------------
(* PhonemeService.runRhubarb (phoneme-service.ts)                           *)

RHUBARB_TIMEOUT_S == 30     \* setTimeout(..., 30000)
TicksPerSecond == 1         \* resolution of the clock
TimeoutTicks == RHUBARB_TIMEOUT_S * TicksPerSecond

\* resolve / reject of the promise: only the first call settles it
Settle(promise, outcome) == IF promise = "pending" THEN outcome ELSE promise

\* the timeout callback without its reject
TimeoutSettle_KillOnly(promise) == promise

\* the timeout callback: reject(new Error('Rhubarb timeout after 30 seconds'))
TimeoutSettle(promise) == Settle(promise, "rejected")

\* what 'close' can bring: code 0 with JSON on stdout, code 0 with output
\* JSON.parse rejects, or another code
CloseCodes == {"zeroJson", "zeroGarbage", "nonzero"}

\* await writeFile(tempFile, audioBuffer) returns: spawn, handlers, timer
WriteFileDone ==
  /\ proc = "writing"
  /\ proc' = "running"
  /\ timer' = "armed"
  /\ elapsed' = 0
  /\ UNCHANGED <<closeCode, rhubarbPromise, settleCalls>>
  /\ UNCHANGED <<cmuVars, envVars, hookVars, g2pVars, avatarVars, routeVars, cacheVars, convVars>>

\* writeFile throws: the catch block rethrows, nothing was spawned
WriteFileFails ==
  /\ proc = "writing"
  /\ proc' = "notSpawned"
  /\ rhubarbPromise' = Settle(rhubarbPromise, "rejected")
  /\ settleCalls' = settleCalls + 1
  /\ UNCHANGED <<closeCode, elapsed, timer>>
  /\ UNCHANGED <<cmuVars, envVars, hookVars, g2pVars, avatarVars, routeVars, cacheVars, convVars>>

\* time passes; the timer callback runs when it is due
Tick ==
  /\ timer = "armed"
  /\ elapsed < TimeoutTicks
  /\ elapsed' = elapsed + 1
  /\ UNCHANGED <<proc, closeCode, rhubarbPromise, timer, settleCalls>>
  /\ UNCHANGED <<cmuVars, envVars, hookVars, g2pVars, avatarVars, routeVars, cacheVars, convVars>>

\* proc.on('close'): the handler starts with await unlink(tempFile)
ProcClose(c) ==
  /\ proc = "running"
  /\ proc' = "unlinking"
  /\ closeCode' = c
  /\ UNCHANGED <<rhubarbPromise, elapsed, timer, settleCalls>>
  /\ UNCHANGED <<cmuVars, envVars, hookVars, g2pVars, avatarVars, routeVars, cacheVars, convVars>>

\* the close handler after the unlink: resolve(parsed) or reject
UnlinkDone ==
  /\ proc = "unlinking"
  /\ proc' = "closed"
  /\ rhubarbPromise' = Settle(rhubarbPromise,
                              IF closeCode = "zeroJson" THEN "resolved" ELSE "rejected")
  /\ settleCalls' = settleCalls + 1
  /\ UNCHANGED <<closeCode, elapsed, timer>>
  /\ UNCHANGED <<cmuVars, envVars, hookVars, g2pVars, avatarVars, routeVars, cacheVars, convVars>>

\* proc.on('error'): the binary could not be spawned
ProcError ==
  /\ proc = "running"
  /\ proc' = "error"
  /\ rhubarbPromise' = Settle(rhubarbPromise, "rejected")
  /\ settleCalls' = settleCalls + 1
  /\ UNCHANGED <<closeCode, elapsed, timer>>
  /\ UNCHANGED <<cmuVars, envVars, hookVars, g2pVars, avatarVars, routeVars, cacheVars, convVars>>

\* the timeout callback: proc.kill(); reject(...)
TimerFires ==
  /\ timer = "armed"
  /\ elapsed = TimeoutTicks
  /\ timer' = "fired"
  /\ rhubarbPromise' = TimeoutSettle(rhubarbPromise)
  /\ settleCalls' = settleCalls + 1
  /\ UNCHANGED <<proc, closeCode, elapsed>>
  /\ UNCHANGED <<cmuVars, envVars, hookVars, g2pVars, avatarVars, routeVars, cacheVars, convVars>>

\* C17: the promise of runRhubarb is pending only while the 30 s timer has
\* not fired, and once settled it never changes, whichever of close, spawn
\* error and timeout comes first
C17_SettlesOnceWithinTimeout ==
  /\ []((rhubarbPromise = "pending" /\ proc \notin {"idle", "writing"})
          => (timer = "armed" /\ elapsed <= TimeoutTicks))
  /\ [][rhubarbPromise # "pending" => rhubarbPromise' = rhubarbPromise]_vars

\* the process closed with good output before the timeout, the timer fired
\* afterwards, and the promise is still the resolved one
C17_Witness ==
  /\ proc = "closed" /\ closeCode = "zeroJson"
  /\ timer = "fired"
  /\ settleCalls = 2
  /\ rhubarbPromise = "resolved"

-----------------------------------------------------------------------------
(* POST /api/phonemes (route.ts)                                            *)

BYTES_PER_SECOND == 48000   \* 24 kHz, 16-bit mono

\* Fallback: CMU dictionary + G2P on the transcript and the duration the
\* route derived from the byte count; a throw reaches the outer catch (500)
CMUFallback(transcript, D, below) ==
  IF estimateWithCMUThrows(transcript)
    THEN [status |-> 500, mouthCues |-> <<>>]
    ELSE [status |-> 200, mouthCues |-> estimateWithCMU(transcript, D, below)]

\* POST.  parses: the body is JSON; audioPresent: audioBase64 is a
\* non-empty string; D: audioBuffer.length / 48000 of the decoded audio;
\* transcript: transcript || ''.
\* extract.kind: "fail" (extractPhonemes rejects) or "cues" (it resolves
\* with extract.cues)
POST(parses, audioPresent, D, transcript, RHUBARB_AVAILABLE, extract, below) ==
  IF ~parses THEN [status |-> 500, mouthCues |-> <<>>]
  ELSE IF ~audioPresent THEN [status |-> 400, mouthCues |-> <<>>]
  ELSE IF RHUBARB_AVAILABLE /\ extract.kind = "cues"
    THEN [status |-> 200, mouthCues |-> extract.cues]
  ELSE CMUFallback(transcript, D, below)

\* The route as the hook calls it: the audio of duration D, base64-encoded
\* (an empty buffer encodes to the empty string), and the transcript;
\* AudioManager.estimateDuration and the route's byte count / 48000 agree.
\* rhubarb.kind: "off" (RHUBARB_AVAILABLE = false), "fail" (extractPhonemes
\* rejects) or "cues" (Rhubarb printed rhubarb.cues)
PhonemesRoute(transcript, D, below, rhubarb) ==
  POST(TRUE, D # Zero, D, transcript, rhubarb.kind # "off", rhubarb, below)

\* Inputs of the route
MaxAudioEighths == 2
RouteBytes == {0, 1} \cup {6000 * k : k \in 1..MaxAudioEighths}
RouteTranscripts == { <<>>, << <<".">> >>, << <<"H","e","l","l","o">> >>,
                      << <<"c","o","n","s","t","r","u","c","t","o","r">> >> }
Requests ==
  { [parses |-> FALSE, audioPresent |-> FALSE, audioBytes |-> 0, transcript |-> <<>>] }
    \cup { [parses |-> TRUE, audioPresent |-> FALSE, audioBytes |-> 0, transcript |-> t] :
             t \in RouteTranscripts }
    \cup { [parses |-> TRUE, audioPresent |-> TRUE, audioBytes |-> n, transcript |-> t] :
             n \in RouteBytes, t \in RouteTranscripts }
\* what extractPhonemes does with audio of n bytes
ExtractOutcomes(n) ==
  { [kind |-> "fail", cues |-> <<>>],
    [kind |-> "cues",
     cues |-> << [start |-> Zero, end |-> Rat(n, BYTES_PER_SECOND), value |-> "A"] >>] }

HandlePost ==
  /\ routePc = "input"
  /\ response' = POST(request.parses, request.audioPresent,
                      Rat(request.audioBytes, BYTES_PER_SECOND),
                      request.transcript, rhubarbAvailable, extractOutcome,
                      routeRoundsBelow)
  /\ routePc' = "done"
  /\ UNCHANGED <<request, rhubarbAvailable, extractOutcome, routeRoundsBelow>>
  /\ UNCHANGED <<cmuVars, envVars, hookVars, g2pVars, avatarVars, rhubarbVars, cacheVars, convVars>>

\* C18: a request that carries audioBase64 gets, when Rhubarb is disabled
\* or extractPhonemes fails, a success with the CMU timeline of the
\* transcript for duration = bytes / 48000; 400 is returned only without
\* audioBase64 and 500 only for a body that cannot be processed
C18_AutomaticFallback ==
  routePc = "done" =>
     /\ (/\ request.parses /\ request.audioPresent
         /\ (~rhubarbAvailable \/ extractOutcome.kind = "fail"))
          => /\ response.status = 200
             /\ response.mouthCues =
                  estimateWithCMU(request.transcript,
                                  Rat(request.audioBytes, BYTES_PER_SECOND),
                                  routeRoundsBelow)
     /\ response.status = 400 => ~request.audioPresent
     /\ response.status = 500 => ~request.parses

-----------------------------------------------------------------------------
(* PhonemeService.extractPhonemes and its result cache (phoneme-service.ts) *)

CACHE_LIMIT == 100      \* if (this.cache.size > 100)
MaxCalls == 3           \* extractPhonemes calls in one run, possibly overlapping

ExtractCallIds == 1..MaxCalls

\* getCacheKey: the MD5 digest of the audio bytes followed by the transcript
\* bytes.  The digest is taken as one-to-one on the bytes hashed, so the key
\* is the concatenation itself
getCacheKey(audioBuffer, transcript) == audioBuffer \o transcript

\* The cache before the run: entry i was stored by an earlier call for the
\* audio <<i>> with an empty transcript
StoredValue(key) == [of |-> key, run |-> 0]
FilledCache(n) ==
  [i \in 1..n |-> [key |-> getCacheKey(<<i>>, <<>>), value |-> StoredValue(<<i>>)]]

\* Calls: the oldest and the newest stored audio, two new ones, and a pair
\* whose bytes concatenate to those of another pair
ExtractInputs ==
  { [audioBuffer |-> <<1>>,   transcript |-> <<>>],
    [audioBuffer |-> <<2>>,   transcript |-> <<>>],
    [audioBuffer |-> <<201>>, transcript |-> <<>>],
    [audioBuffer |-> <<202>>, transcript |-> <<>>],
    [audioBuffer |-> <<>>,    transcript |-> <<201>>] }

CacheKeys(c) == { c[i].key : i \in 1..Len(c) }
CacheHas(c, key) == key \in CacheKeys(c)
CacheGet(c, key) == c[CHOOSE i \in 1..Len(c) : c[i].key = key].value
getCacheSize == Len(cache)

\* Map.set: a key already present keeps its place, a new key goes last
CacheSet(c, key, value) ==
  IF CacheHas(c, key)
    THEN [i \in 1..Len(c) |-> IF c[i].key = key THEN [c[i] EXCEPT !.value = value]
                                                 ELSE c[i]]
    ELSE Append(c, [key |-> key, value |-> value])

\* the cleanup with the newest key deleted instead of the first
Cleanup_DeleteLast(c) ==
  IF Len(c) > CACHE_LIMIT THEN SubSeq(c, 1, Len(c) - 1) ELSE c

\* Cleanup old cache entries: delete the first key of the Map
Cleanup(c) ==
  IF Len(c) > CACHE_LIMIT THEN Tail(c) ELSE c

\* extractPhonemes up to its await: a hit returns, a miss starts Rhubarb
ExtractPhonemes(c, input) ==
  /\ extractCalls[c].pc = "idle"
  /\ \A b \in 1..(c - 1) : extractCalls[b].pc # "idle"
  /\ LET cacheKey == getCacheKey(input.audioBuffer, input.transcript)
     IN  extractCalls' =
           [extractCalls EXCEPT ![c] =
              IF CacheHas(cache, cacheKey)
                THEN [pc |-> "hit", key |-> cacheKey, returned |-> CacheGet(cache, cacheKey)]
                ELSE [pc |-> "running", key |-> cacheKey, returned |-> StoredValue(<<>>)]]
  /\ UNCHANGED cache
  /\ UNCHANGED <<cmuVars, envVars, hookVars, g2pVars, avatarVars, rhubarbVars, routeVars, convVars>>

\* runRhubarb resolves: the result is stored, the cache cleaned up, the
\* result returned
RunRhubarbResolves(c) ==
  /\ extractCalls[c].pc = "running"
  /\ LET result == [of |-> extractCalls[c].key, run |-> c]
     IN  /\ cache' = Cleanup(CacheSet(cache, extractCalls[c].key, result))
         /\ extractCalls' = [extractCalls EXCEPT ![c].pc = "ran", ![c].returned = result]
  /\ UNCHANGED <<cmuVars, envVars, hookVars, g2pVars, avatarVars, rhubarbVars, routeVars, convVars>>

\* runRhubarb rejects: extractPhonemes throws at its await
RunRhubarbRejects(c) ==
  /\ extractCalls[c].pc = "running"
  /\ extractCalls' = [extractCalls EXCEPT ![c].pc = "threw"]
  /\ UNCHANGED cache
  /\ UNCHANGED <<cmuVars, envVars, hookVars, g2pVars, avatarVars, rhubarbVars, routeVars, convVars>>

\* C27: the cache never holds more than 100 entries; storing a new key in a
\* full cache removes the oldest-inserted key and keeps the others in
\* order; a call whose key is cached returns the cached value without
\* running Rhubarb; a failed run leaves the cache as it was
C27_CacheBoundedFifo ==
  [][/\ Len(cache') <= CACHE_LIMIT
     /\ \A c \in ExtractCallIds :
          /\ (/\ extractCalls[c].pc = "running" /\ extractCalls'[c].pc = "ran"
              /\ Len(cache) = CACHE_LIMIT
              /\ ~CacheHas(cache, extractCalls[c].key))
                => /\ ~CacheHas(cache', cache[1].key)
                   /\ SubSeq(cache', 1, CACHE_LIMIT - 1) = Tail(cache)
                   /\ cache'[CACHE_LIMIT].key = extractCalls[c].key
          /\ (extractCalls[c].pc = "idle" /\ extractCalls'[c].pc # "idle"
              /\ CacheHas(cache, extractCalls'[c].key))
                => /\ extractCalls'[c].pc = "hit"
                   /\ extractCalls'[c].returned = CacheGet(cache, extractCalls'[c].key)
                   /\ cache' = cache
          /\ (extractCalls[c].pc = "running" /\ extractCalls'[c].pc = "threw")
                => cache' = cache]_vars

\* two new keys have been stored in a cache that was full: the two oldest
\* entries are gone, and a later call was served from the cache
C27_Witness ==
  /\ Len(cache) = CACHE_LIMIT
  /\ ~CacheHas(cache, <<1>>) /\ ~CacheHas(cache, <<2>>)
  /\ CacheHas(cache, <<201>>) /\ CacheHas(cache, <<202>>)
  /\ \E c \in ExtractCallIds : extractCalls[c].pc = "hit"

-----------------------------------------------------------------------------
(* Avatar.useFrame: target weights (Avatar.tsx)                             *)

LOOK_AHEAD_WEIGHT == <<1, 5>>      \* 0.20
ALL_VISEME_TARGETS == {"mouthOpen", "mouthSmile"}

\* VISEME_MAP[v] as a function of the target name; absent entries are 0
VISEME_MAP(v) ==
  CASE v = "A" -> [mouthOpen |-> <<1, 1>>,    mouthSmile |-> <<1, 20>>]
    [] v = "C" -> [mouthOpen |-> <<13, 20>>,  mouthSmile |-> Zero]
    [] v = "D" -> [mouthOpen |-> <<7, 20>>,   mouthSmile |-> <<3, 25>>]
    [] v = "E" -> [mouthOpen |-> <<1, 5>>,    mouthSmile |-> Zero]
    [] v = "F" -> [mouthOpen |-> <<3, 20>>,   mouthSmile |-> <<1, 20>>]
    [] v = "G" -> [mouthOpen |-> <<9, 20>>,   mouthSmile |-> Zero]
    [] v = "H" -> [mouthOpen |-> <<11, 50>>,  mouthSmile |-> <<12, 25>>]
    [] OTHER   -> [mouthOpen |-> Zero,        mouthSmile |-> Zero]

\* the entries VISEME_MAP[v] lists (forEach runs over these only)
VisemeTargets(v) ==
  CASE v \in {"A", "D", "F", "H"} -> {"mouthOpen", "mouthSmile"}
    [] v \in {"C", "E", "G"} -> {"mouthOpen"}
    [] OTHER -> {}

\* the look-ahead blend without Math.min(1, ...)
BlendedWeights_NoClamp(cv, nv) ==
  [name \in ALL_VISEME_TARGETS |->
     LET primary == IF name \in VisemeTargets(cv) THEN VISEME_MAP(cv)[name] ELSE Zero
     IN  IF nv # "" /\ nv # cv /\ name \in VisemeTargets(nv)
           THEN RAdd(primary, RMul(VISEME_MAP(nv)[name], LOOK_AHEAD_WEIGHT))
           ELSE primary]

\* weights after the primary viseme and the look-ahead blend (before the
\* amplitude gate)
BlendedWeights(cv, nv) ==
  [name \in ALL_VISEME_TARGETS |->
     LET primary == IF name \in VisemeTargets(cv) THEN VISEME_MAP(cv)[name] ELSE Zero
     IN  IF nv # "" /\ nv # cv /\ name \in VisemeTargets(nv)
           THEN RMin(<<1, 1>>, RAdd(primary, RMul(VISEME_MAP(nv)[name], LOOK_AHEAD_WEIGHT)))
           ELSE primary]

SILENCE_THRESHOLD == <<7, 100>>     \* 0.07
CONSONANT_AMP_FLOOR == <<1, 10>>    \* 0.10
LOW_OPEN == <<1, 4>>                \* rawOpen < 0.25 gets the floor

RECURSIVE IPow(_, _)
IPow(b, e) == IF e = 0 THEN 1 ELSE b * IPow(b, e - 1)

\* Math.pow(x, 0.65) = x^(13/20), for the x whose twentieth root is
\* rational with numerator and denominator in 0..2
Root20(n) == CHOOSE r \in 0..2 : IPow(r, 20) = n
Pow065(x) == Rat(IPow(Root20(x[1]), 13), IPow(Root20(x[2]), 13))

\* Smooth gate: 0 at silence threshold, 1 at full amplitude
Gate(amp) ==
  IF RLt(amp, SILENCE_THRESHOLD) THEN Zero
  ELSE Pow065(RDiv(RSub(amp, SILENCE_THRESHOLD), RSub(<<1, 1>>, SILENCE_THRESHOLD)))

\* the amplitude gate applied to every target instead of mouthOpen alone
GatedWeights_AllTargets(w, amp, playing) ==
  IF playing
    THEN [name \in ALL_VISEME_TARGETS |->
            IF RLt(Zero, w[name])
              THEN RMul(w[name],
                        RMax(Gate(amp),
                             IF RLt(w[name], LOW_OPEN) THEN CONSONANT_AMP_FLOOR ELSE Zero))
              ELSE w[name]]
    ELSE w

\* Amplitude-gate mouthOpen: if (isPlaying) { ... }
GatedWeights(w, amp, playing) ==
  IF playing /\ RLt(Zero, w.mouthOpen)
    THEN LET rawOpen == w.mouthOpen
             floor == IF RLt(rawOpen, LOW_OPEN) THEN CONSONANT_AMP_FLOOR ELSE Zero
         IN  [w EXCEPT !.mouthOpen = RMul(rawOpen, RMax(Gate(amp), floor))]
    ELSE w

\* the target weights one frame lerps the morph targets toward
TargetWeights(props) ==
  GatedWeights(BlendedWeights(props.currentViseme, props.nextViseme),
               props.mouthAmplitude, props.isPlaying)

\* Inputs: amplitudes below, at and above the threshold
Amplitudes == { Zero, <<3, 50>>, <<7, 100>>, <<7340125, 104857600>>, <<1, 1>> }

MaxFrames == 2          \* frames rendered in one run

ATTACK_RATE == 120      \* target > current
DECAY_RATE == 22

\* Frame times: no time passed, ln 2 / 120 s (about 6 ms), ln 2 / 22 s
\* (about 32 ms), and 2 s (the tab was in the background)
Deltas == {"0", "ln2/120", "ln2/22", "2"}

\* rate * delta, the first-order term of the exponential, to the nearest 1/16
LerpFactor_FirstOrder(rate, delta) ==
  CASE delta = "0"       -> Zero
    [] delta = "ln2/120" -> IF rate = ATTACK_RATE THEN <<11, 16>> ELSE <<1, 8>>
    [] delta = "ln2/22"  -> IF rate = DECAY_RATE THEN <<11, 16>> ELSE <<15, 4>>
    [] delta = "2"       -> <<2 * rate, 1>>

\* 1 - Math.exp(-rate * delta), to the nearest 1/8 where it is not exact:
\* at ln 2 / 120 the attack factor is 1/2 and the decay factor
\* 1 - 2^(-11/60) = 0.1193; at ln 2 / 22 the decay factor is 1/2 and the
\* attack factor 1 - 2^(-60/11) = 0.9772; at 2 s both exponentials are
\* below 2^-53 and the double result is 1
LerpFactor(rate, delta) ==
  CASE delta = "0"       -> Zero
    [] delta = "ln2/120" -> IF rate = ATTACK_RATE THEN <<1, 2>> ELSE <<1, 8>>
    [] delta = "ln2/22"  -> IF rate = DECAY_RATE THEN <<1, 2>> ELSE <<1, 1>>
    [] delta = "2"       -> <<1, 1>>

\* THREE.MathUtils.lerp
Lerp(x, y, t) == RAdd(RMul(RSub(<<1, 1>>, t), x), RMul(t, y))

\* the smoothing step of one morph target
Smoothed(current, target, delta) ==
  LET rate == IF RLt(current, target) THEN ATTACK_RATE ELSE DECAY_RATE
  IN  Lerp(current, target, LerpFactor(rate, delta))

\* Props of a later render: at rest, the widest viseme at full amplitude, a
\* smile with a look-ahead at a middle amplitude, the widest viseme in a
\* silence gap
LaterProps ==
  { [currentViseme |-> "X", nextViseme |-> "X", isPlaying |-> FALSE, mouthAmplitude |-> Zero],
    [currentViseme |-> "A", nextViseme |-> "X", isPlaying |-> TRUE, mouthAmplitude |-> <<1, 1>>],
    [currentViseme |-> "H", nextViseme |-> "D", isPlaying |-> TRUE,
     mouthAmplitude |-> <<7340125, 104857600>>],
    [currentViseme |-> "A", nextViseme |-> "C", isPlaying |-> TRUE, mouthAmplitude |-> <<3, 50>>] }

\* useFrame: the target weights, then the exponential lerp of every target
UseFrame ==
  /\ framePc = "input"
  /\ \E delta \in Deltas :
        /\ weights' = TargetWeights(avatarProps)
        /\ morphTargetInfluences' =
             [name \in ALL_VISEME_TARGETS |->
                Smoothed(morphTargetInfluences[name], TargetWeights(avatarProps)[name], delta)]
  /\ frames' = frames + 1
  /\ framePc' = "done"
  /\ UNCHANGED avatarProps
  /\ UNCHANGED <<cmuVars, envVars, hookVars, g2pVars, rhubarbVars, routeVars, cacheVars, convVars>>

\* the component renders again with new props before the next frame
Render ==
  /\ framePc = "done"
  /\ frames < MaxFrames
  /\ avatarProps' \in LaterProps
  /\ framePc' = "input"
  /\ UNCHANGED <<weights, morphTargetInfluences, frames>>
  /\ UNCHANGED <<cmuVars, envVars, hookVars, g2pVars, rhubarbVars, routeVars, cacheVars, convVars>>

InUnit(x) == RLe(Zero, x) /\ RLe(x, <<1, 1>>)
Between(x, lo, hi) == RLe(RMin(lo, hi), x) /\ RLe(x, RMax(lo, hi))

\* C26: in every frame each target weight and each smoothed morph-target
\* weight lies in [0, 1], and the smoothing step lands between the previous
\* weight and the target, moving by the attack factor when the target is
\* higher and by the decay factor otherwise
C26_WeightsStayInUnit ==
  [][UseFrame =>
       \E delta \in Deltas : \A name \in ALL_VISEME_TARGETS :
          LET previous == morphTargetInfluences[name]
              target == weights'[name]
              now == morphTargetInfluences'[name]
              factor == LerpFactor(IF RLt(previous, target) THEN ATTACK_RATE
                                                            ELSE DECAY_RATE, delta)
          IN  /\ InUnit(target) /\ InUnit(now)
              /\ Between(now, previous, target)
              /\ now = RAdd(previous, RMul(factor, RSub(target, previous)))]_vars

\* a second frame has moved one weight up part of the way and another down
\* part of the way
C26_Witness ==
  /\ framePc = "done" /\ frames = 2
  /\ \E up, down \in ALL_VISEME_TARGETS :
        /\ RLt(Zero, morphTargetInfluences[up])
        /\ RLt(morphTargetInfluences[up], weights[up])
        /\ RLt(weights[down], morphTargetInfluences[down])

\* C13: while audio is playing and the amplitude is below 0.07, the
\* mouthOpen target weight is 0 whatever the current and look-ahead visemes
C13_SilenceGate ==
  (/\ framePc = "done"
   /\ avatarProps.isPlaying
   /\ RLt(avatarProps.mouthAmplitude, SILENCE_THRESHOLD))
     => weights.mouthOpen = Zero

\* the viseme's base smile weight plus the clamped look-ahead contribution
SmileBeforeGate(cv, nv) ==
  LET base == VISEME_MAP(cv).mouthSmile
  IN  IF nv # cv
        THEN RMin(<<1, 1>>, RAdd(base, RMul(VISEME_MAP(nv).mouthSmile, LOOK_AHEAD_WEIGHT)))
        ELSE base

\* C14: the mouthSmile target after the amplitude gate equals its value
\* before the gate, for every viseme pair, amplitude and playing flag
C14_GateLeavesSmile ==
  framePc = "done" =>
     /\ weights.mouthSmile =
          BlendedWeights(avatarProps.currentViseme, avatarProps.nextViseme).mouthSmile
     /\ weights.mouthSmile =
          SmileBeforeGate(avatarProps.currentViseme, avatarProps.nextViseme)

\* the gate has closed the jaw of a frame whose smile weight is not 0
C14_Witness ==
  /\ framePc = "done"
  /\ avatarProps.isPlaying
  /\ RLt(avatarProps.mouthAmplitude, SILENCE_THRESHOLD)
  /\ weights.mouthOpen #
       BlendedWeights(avatarProps.currentViseme, avatarProps.nextViseme).mouthOpen
  /\ RLt(Zero, weights.mouthSmile)

-----------------------------------------------------------------------------
(* useLipSync (hooks/useLipSync) with its AudioManager                      *)

MaxUtterances == 1      \* speak() calls in one run
MaxPlays == 2           \* playPCM() calls in one run
ClockHz == 4            \* the audio clock is read on a grid of 1/ClockHz s
LOOK_AHEAD_S == <<1, 20>>          \* 0.05
COVERAGE_MIN == <<7, 10>>          \* coverage < 0.7 keeps the estimate

Utterances == 1..MaxUtterances
Sources == 1..MaxPlays
SpeakTexts == { <<Hello>> }
AudioDurations == { Zero, <<1, 2>> }
\* what Rhubarb can print for audio of duration D: nothing, or two cues that
\* end at the given fraction of D
Coverages == { <<13, 20>>, <<7, 10>>, <<3, 4>> }
RhubarbCues(D, c) ==
  << [start |-> Zero, end |-> RMul(RMul(D, c), <<1, 2>>), value |-> "B"],
     [start |-> RMul(RMul(D, c), <<1, 2>>), end |-> RMul(D, c), value |-> "A"] >>
RhubarbResults(D) == { <<>> } \cup { RhubarbCues(D, c) : c \in Coverages }

NoResponse == [outcome |-> "none", ok |-> FALSE, mouthCues |-> <<>>]

\* a commit whose effects have not run yet: a ref lags its state, or the
\* isPlaying effect has not seen the current isPlaying
EffectsDue ==
  \/ isPlayingRef # isPlaying \/ effectIsPlaying # isPlaying
  \/ currentVisemeRef # currentViseme \/ nextVisemeRef # nextViseme

\* a response that has arrived and whose continuation has not run yet
ResponseDue == \E u \in Utterances : refineResponse[u].outcome # "none"

\* the event loop is free to run the next event
Idle == ~EffectsDue /\ ~ResponseDue

\* ---- AudioManager ---------------------------------------------------------

\* AudioManager.getCurrentTime
getCurrentTime == IF currentSource = 0 THEN Zero ELSE Rat(clock, ClockHz)

FreeSource == CHOOSE s \in Sources : sourceState[s] = "unused" /\
                 \A r \in Sources : sourceState[r] = "unused" => s <= r

\* AudioManager.playPCM for the audio of utterance u; createBuffer throws
\* for an empty buffer.  Gives the new audio-manager state.
PlayThrows(u) == uttDuration[u] = Zero
PlayPCM(u) ==
  LET s == FreeSource
      stoppedOld == IF currentSource # 0 /\ sourceState[currentSource] = "playing"
                      THEN [sourceState EXCEPT ![currentSource] = "stopped"]
                      ELSE sourceState
  IN  /\ currentSource' = s
      /\ sourceState' = [stoppedOld EXCEPT ![s] = "playing"]
      /\ sourceUtt' = u
      /\ clock' = 0

\* AudioManager.stop
AudioStop ==
  /\ currentSource' = 0
  /\ sourceState' = IF currentSource # 0 /\ sourceState[currentSource] = "playing"
                      THEN [sourceState EXCEPT ![currentSource] = "stopped"]
                      ELSE sourceState
  /\ clock' = 0
  /\ sourceUtt' = 0

\* ---- speak ----------------------------------------------------------------

\* speak(text) up to the TTS fetch
Speak(t) ==
  /\ Idle
  /\ UNCHANGED <<cmuVars, envVars, g2pVars, avatarVars, rhubarbVars, routeVars, cacheVars, convVars>>
  /\ \E u \in Utterances :
       /\ speakPc[u] = "new"
       /\ \A v \in Utterances : v < u => speakPc[v] # "new"
       /\ speakPc' = [speakPc EXCEPT ![u] = "tts"]
       /\ uttText' = [uttText EXCEPT ![u] = t]
  /\ error' = "null"
  /\ isFetching' = TRUE
  /\ UNCHANGED <<isPlaying, currentViseme, nextViseme, refVars, phonemeDataRef,
                 audioBufferRef, frameVars, audioVars, uttDuration, refineResponse,
                 stopped>>

\* the catch block of speak
SpeakCatch(u) ==
  /\ error' = "Failed to speak"
  /\ isFetching' = FALSE
  /\ isPlaying' = FALSE
  /\ speakPc' = [speakPc EXCEPT ![u] = "done"]
  /\ UNCHANGED stopped

\* the TTS request failed (not ok, no body, or the fetch threw)
TtsFails(u) ==
  /\ Idle
  /\ UNCHANGED <<cmuVars, envVars, g2pVars, avatarVars, rhubarbVars, routeVars, cacheVars, convVars>>
  /\ speakPc[u] = "tts"
  /\ SpeakCatch(u)
  /\ UNCHANGED <<currentViseme, nextViseme, refVars, phonemeDataRef, audioBufferRef,
                 frameVars, audioVars, uttText, uttDuration, refineResponse>>

\* the TTS stream was read to its end: keep the audio, ask for the estimate
TtsArrives(u, D) ==
  /\ Idle
  /\ UNCHANGED <<cmuVars, envVars, g2pVars, avatarVars, rhubarbVars, routeVars, cacheVars, convVars>>
  /\ speakPc[u] = "tts"
  /\ audioBufferRef' = u
  /\ uttDuration' = [uttDuration EXCEPT ![u] = D]
  /\ speakPc' = [speakPc EXCEPT ![u] = "estimate"]
  /\ UNCHANGED <<reactVars, refVars, phonemeDataRef, frameVars, audioVars, uttText,
                 refineResponse, stopped>>

\* the assignment written as an element-wise overwrite of the active array
InstallTimeline_InPlace(active, cues) ==
  LET n == IF Len(active) > Len(cues) THEN Len(active) ELSE Len(cues)
  IN  [i \in 1..n |-> IF i <= Len(cues) THEN cues[i] ELSE active[i]]

\* phonemeDataRef.current = cues: the ref is pointed at the new array
InstallTimeline(active, cues) == cues

\* getEstimatedPhonemes returns (reached: the fetch did not throw), then
\* speak goes on: isPlaying, playPCM, refinePhonemes up to its fetch
EstimateReturns(u, reached) ==
  /\ Idle
  /\ UNCHANGED <<cmuVars, envVars, g2pVars, avatarVars, rhubarbVars, routeVars, cacheVars, convVars>>
  /\ speakPc[u] = "estimate"
  /\ LET resp == EstimateRoute(uttText[u], uttDuration[u])
     IN  IF reached /\ resp.ok
           THEN phonemeDataRef' = InstallTimeline(phonemeDataRef, resp.mouthCues)
           ELSE UNCHANGED phonemeDataRef
  /\ IF PlayThrows(u)
       THEN /\ SpeakCatch(u)
            /\ UNCHANGED audioVars
       ELSE /\ \E s \in Sources : sourceState[s] = "unused"
            /\ isFetching' = FALSE
            /\ isPlaying' = TRUE
            /\ PlayPCM(u)
            /\ speakPc' = [speakPc EXCEPT ![u] = "refine"]
            /\ UNCHANGED <<error, stopped>>
  /\ UNCHANGED <<currentViseme, nextViseme, refVars, audioBufferRef, frameVars,
                 uttText, uttDuration, refineResponse>>

\* ---- refinePhonemes -------------------------------------------------------

\* the coverage test of refinePhonemes
Coverage(cues, audioDuration) ==
  LET lastCueEnd == IF Len(cues) > 0 THEN cues[Len(cues)].end ELSE Zero
  IN  IF RLt(Zero, audioDuration) THEN RDiv(lastCueEnd, audioDuration) ELSE Zero

\* the coverage test with <= in place of <
CoverageRejects_AtBoundary(cues, audioDuration) ==
  RLe(Coverage(cues, audioDuration), COVERAGE_MIN)

\* coverage < 0.7: the response is dropped
CoverageRejects(cues, audioDuration) ==
  RLt(Coverage(cues, audioDuration), COVERAGE_MIN)

\* POST /api/phonemes answers the request of utterance u.  outcome:
\* "rhubarb" (Rhubarb ran and printed rhubarb), "toolFailed" (Rhubarb failed
\* or is switched off), "httpError" (response.ok is false), "networkError"
\* (fetch threw)
PhonemesPost(u, outcome, rhubarb, below) ==
  /\ Idle
  /\ speakPc[u] = "refine"
  /\ LET audioDuration == uttDuration[u]
         resp == CASE outcome = "rhubarb" ->
                        PhonemesRoute(uttText[u], audioDuration, below,
                                      [kind |-> "cues", cues |-> rhubarb])
                   [] outcome = "toolFailed" ->
                        PhonemesRoute(uttText[u], audioDuration, below,
                                      [kind |-> "fail", cues |-> <<>>])
                   [] OTHER -> [status |-> 500, mouthCues |-> <<>>]
     IN  \* response.ok: the status is in the range 200-299
         refineResponse' = [refineResponse EXCEPT ![u] =
                              [outcome |-> outcome, ok |-> resp.status = 200,
                               mouthCues |-> resp.mouthCues]]
  /\ UNCHANGED <<reactVars, refVars, phonemeDataRef, audioBufferRef, frameVars,
                 audioVars, speakPc, uttText, uttDuration, stopped>>
  /\ UNCHANGED <<cmuVars, envVars, g2pVars, avatarVars, rhubarbVars, routeVars, cacheVars, convVars>>

\* Rhubarb ran: it printed one of RhubarbResults
PhonemesPostRhubarb(u) ==
  \E rhubarb \in RhubarbResults(uttDuration[u]) : PhonemesPost(u, "rhubarb", rhubarb, FALSE)

\* Rhubarb failed or is switched off: the route answers with its CMU fallback
PhonemesPostFallback(u) ==
  \E below \in BOOLEAN : PhonemesPost(u, "toolFailed", <<>>, below)

\* the route answers 500, or the fetch throws
PhonemesPostError(u) ==
  \E outcome \in {"httpError", "networkError"} : PhonemesPost(u, outcome, <<>>, FALSE)

\* refinePhonemes from the response on
RefineReturns(u) ==
  /\ ~EffectsDue
  /\ refineResponse[u].outcome # "none"
  /\ LET cues == refineResponse[u].mouthCues
         audioDuration == uttDuration[u]
     IN  phonemeDataRef' =
           IF refineResponse[u].ok /\ ~CoverageRejects(cues, audioDuration)
             THEN InstallTimeline(phonemeDataRef, cues) ELSE phonemeDataRef
  /\ refineResponse' = [refineResponse EXCEPT ![u] = NoResponse]
  /\ speakPc' = [speakPc EXCEPT ![u] = "done"]
  /\ stopped' = stopped \ {u}
  /\ UNCHANGED <<reactVars, refVars, audioBufferRef, frameVars, audioVars,
                 uttText, uttDuration>>
  /\ UNCHANGED <<cmuVars, envVars, g2pVars, avatarVars, rhubarbVars, routeVars, cacheVars, convVars>>

\* ---- stop, replay, end of audio -------------------------------------------

Stop ==
  /\ Idle
  /\ UNCHANGED <<cmuVars, envVars, g2pVars, avatarVars, rhubarbVars, routeVars, cacheVars, convVars>>
  /\ AudioStop
  /\ isFetching' = FALSE
  /\ isPlaying' = FALSE
  /\ currentViseme' = "X"
  /\ stopped' = stopped \cup {u \in Utterances : speakPc[u] = "refine"}
  /\ UNCHANGED <<nextViseme, error, refVars, phonemeDataRef, audioBufferRef,
                 frameVars, speakVars>>

Replay ==
  /\ Idle
  /\ UNCHANGED <<cmuVars, envVars, g2pVars, avatarVars, rhubarbVars, routeVars, cacheVars, convVars>>
  /\ audioBufferRef # 0
  /\ IF PlayThrows(audioBufferRef)
       THEN /\ error' = "Failed to replay"
            /\ isPlaying' = FALSE
            /\ UNCHANGED audioVars
       ELSE /\ \E s \in Sources : sourceState[s] = "unused"
            /\ error' = "null"
            /\ isPlaying' = TRUE
            /\ PlayPCM(audioBufferRef)
  /\ UNCHANGED <<isFetching, currentViseme, nextViseme, refVars, phonemeDataRef,
                 audioBufferRef, frameVars, speakVars, stopped>>

\* the audio clock moves on while the current source has audio left
ClockAdvance ==
  /\ Idle
  /\ UNCHANGED <<cmuVars, envVars, g2pVars, avatarVars, rhubarbVars, routeVars, cacheVars, convVars>>
  /\ currentSource # 0
  /\ RLt(Rat(clock, ClockHz), uttDuration[sourceUtt])
  /\ clock' = clock + 1
  /\ UNCHANGED <<reactVars, refVars, phonemeDataRef, audioBufferRef, frameVars,
                 currentSource, sourceState, sourceUtt, speakVars, stopped>>

\* source.onended: the source was stopped, or it played its buffer out
AudioEnded(s) ==
  /\ Idle
  /\ UNCHANGED <<cmuVars, envVars, g2pVars, avatarVars, rhubarbVars, routeVars, cacheVars, convVars>>
  /\ \/ sourceState[s] = "stopped"
     \/ /\ sourceState[s] = "playing"
        /\ s = currentSource
        /\ RLe(uttDuration[sourceUtt], Rat(clock, ClockHz))
  /\ sourceState' = [sourceState EXCEPT ![s] = "ended"]
  /\ currentSource' = IF currentSource = s THEN 0 ELSE currentSource
  /\ clock' = IF currentSource = s THEN 0 ELSE clock
  /\ sourceUtt' = IF currentSource = s THEN 0 ELSE sourceUtt
  /\ isPlaying' = FALSE
  /\ UNCHANGED <<isFetching, currentViseme, nextViseme, error, refVars,
                 phonemeDataRef, audioBufferRef, frameVars, speakVars, stopped>>

\* ---- the viseme loop ------------------------------------------------------

\* cancelAnimationFrame without effect
CancelFrame_Noop(ref, pending) == pending

\* if (animationFrameRef.current) cancelAnimationFrame(animationFrameRef.current):
\* the callbacks that stay pending
CancelFrame(ref, pending) == IF ref = "pending" THEN pending - 1 ELSE pending

\* updateViseme, run by a pending animation frame
updateViseme ==
  /\ Idle
  /\ pendingFrames > 0
  /\ IF ~isPlayingRef
       THEN /\ pendingFrames' = pendingFrames - 1
            /\ animationFrameRef' = IF animationFrameRef = "pending" /\ pendingFrames = 1
                                      THEN "stale" ELSE animationFrameRef
            /\ UNCHANGED <<currentViseme, nextViseme, currentVisemeRef, nextVisemeRef>>
       ELSE LET currentTime == getCurrentTime
                IsCurrent(cue) == RLe(cue.start, currentTime) /\ RLt(currentTime, cue.end)
                IsAhead(cue) == /\ RLt(currentTime, cue.start)
                                /\ RLe(cue.start, RAdd(currentTime, LOOK_AHEAD_S))
                \* Array.prototype.find: the first match, as a set of <= 1
                cur == {i \in 1..Len(phonemeDataRef) :
                          /\ IsCurrent(phonemeDataRef[i])
                          /\ \A k \in 1..(i - 1) : ~IsCurrent(phonemeDataRef[k])}
                nxt == {i \in 1..Len(phonemeDataRef) :
                          /\ IsAhead(phonemeDataRef[i])
                          /\ \A k \in 1..(i - 1) : ~IsAhead(phonemeDataRef[k])}
                curVal == IF cur # {} THEN phonemeDataRef[CHOOSE i \in cur : TRUE].value
                          ELSE IF RLt(Zero, currentTime) THEN "X"
                          ELSE currentVisemeRef
                nextVal == IF nxt # {} THEN phonemeDataRef[CHOOSE i \in nxt : TRUE].value
                           ELSE "X"
            IN  /\ currentVisemeRef' = curVal
                /\ currentViseme' = IF curVal # currentVisemeRef THEN curVal ELSE currentViseme
                /\ nextVisemeRef' = nextVal
                /\ nextViseme' = IF nextVal # nextVisemeRef THEN nextVal ELSE nextViseme
                \* requestAnimationFrame(updateViseme)
                /\ animationFrameRef' = "pending"
                /\ pendingFrames' = (pendingFrames - 1) + 1
  /\ UNCHANGED <<isPlaying, isFetching, error, isPlayingRef, phonemeDataRef,
                 audioBufferRef, effectIsPlaying, audioVars, speakVars, stopped>>
  /\ UNCHANGED <<cmuVars, envVars, g2pVars, avatarVars, rhubarbVars, routeVars, cacheVars, convVars>>

\* the effects of one commit: the three ref-sync effects, then the
\* isPlaying effect (cleanup of its previous run, then its body) when
\* isPlaying changed
RunEffects ==
  /\ EffectsDue
  /\ isPlayingRef' = isPlaying
  /\ nextVisemeRef' = nextViseme
  /\ effectIsPlaying' = isPlaying
  /\ IF effectIsPlaying # isPlaying
       THEN IF isPlaying
              THEN /\ animationFrameRef' = "pending"
                   /\ pendingFrames' = CancelFrame(animationFrameRef, pendingFrames) + 1
                   /\ currentVisemeRef' = currentViseme
                   /\ UNCHANGED currentViseme
              ELSE /\ animationFrameRef' = "unset"
                   /\ pendingFrames' = CancelFrame(animationFrameRef, pendingFrames)
                   /\ currentVisemeRef' = "X"
                   /\ currentViseme' = "X"
       ELSE /\ currentVisemeRef' = currentViseme
            /\ UNCHANGED <<animationFrameRef, pendingFrames, currentViseme>>
  /\ UNCHANGED <<isPlaying, isFetching, nextViseme, error, phonemeDataRef,
                 audioBufferRef, audioVars, speakVars, stopped>>
  /\ UNCHANGED <<cmuVars, envVars, g2pVars, avatarVars, rhubarbVars, routeVars, cacheVars, convVars>>

-----------------------------------------------------------------------------
(* useConversation (hooks/useConversation): the status machine over the     *)
(* lip-sync hook.  Of useLipSync this part keeps what useConversation reads *)
(* and drives - isFetching, isPlaying and the AudioManager's sources; the   *)
(* viseme loop and the phoneme requests are left at rest.                   *)

MaxTurns == 2           \* final transcripts in one run

Turns == 1..MaxTurns

\* what useConversation leaves alone of the lip-sync hook
lipSyncRest == <<currentViseme, nextViseme, error, refVars, phonemeDataRef,
                 audioBufferRef, frameVars, sourceState, sourceUtt, clock,
                 speakVars, stopped>>

\* the effect with the dependency list [isPlaying]
ConvEffectDue_PlayingOnly == seenFlags[1] # isPlaying

\* the responding -> idle effect has to run: one of its dependencies changed
ConvEffectDue == seenFlags # <<isPlaying, isFetching>>

\* stopSpeaking: AudioManager.stop, setIsFetching(false), setIsPlaying(false)
StopSpeaking ==
  /\ turnSource' = IF currentSource # 0 /\ turnSource[currentSource] = "playing"
                     THEN [turnSource EXCEPT ![currentSource] = "stopped"]
                     ELSE turnSource
  /\ currentSource' = 0
  /\ isFetching' = FALSE
  /\ isPlaying' = FALSE

\* useEffect(..., [isPlaying, isFetching]): the cleanup clears the timer of
\* the run before, the body arms a new one
RespondingEffect ==
  /\ ConvEffectDue
  /\ seenFlags' = <<isPlaying, isFetching>>
  /\ idleTimer' = IF statusRef = "responding" /\ ~isPlaying /\ ~isFetching
                    THEN "armed" ELSE "unset"
  /\ UNCHANGED <<status, statusRef, recognition, turnPc, turnSource, cancelled>>
  /\ UNCHANGED <<isPlaying, isFetching, currentSource, lipSyncRest>>
  /\ UNCHANGED <<cmuVars, envVars, g2pVars, avatarVars, rhubarbVars, routeVars, cacheVars>>

\* the timeout: if (statusRef.current === 'responding') setStatus('idle'),
\* with the status -> statusRef effect of the render that follows
IdleTimerFires ==
  /\ ~ConvEffectDue
  /\ idleTimer = "armed"
  /\ idleTimer' = "unset"
  /\ status' = IF statusRef = "responding" THEN "idle" ELSE status
  /\ statusRef' = IF statusRef = "responding" THEN "idle" ELSE statusRef
  /\ UNCHANGED <<recognition, turnPc, turnSource, seenFlags, cancelled>>
  /\ UNCHANGED <<isPlaying, isFetching, currentSource, lipSyncRest>>
  /\ UNCHANGED <<cmuVars, envVars, g2pVars, avatarVars, rhubarbVars, routeVars, cacheVars>>

\* startListening
startListening ==
  /\ ~ConvEffectDue
  /\ statusRef # "listening"
  /\ StopSpeaking
  /\ recognition' = IF recognition = "off" THEN "starting" ELSE recognition
  /\ UNCHANGED <<status, statusRef, turnPc, idleTimer, seenFlags, cancelled>>
  /\ UNCHANGED lipSyncRest
  /\ UNCHANGED <<cmuVars, envVars, g2pVars, avatarVars, rhubarbVars, routeVars, cacheVars>>

\* recognition.onstart
RecognitionOnStart ==
  /\ ~ConvEffectDue
  /\ recognition = "starting"
  /\ recognition' = "on"
  /\ status' = "listening" /\ statusRef' = "listening"
  /\ UNCHANGED <<turnPc, turnSource, idleTimer, seenFlags, cancelled>>
  /\ UNCHANGED <<isPlaying, isFetching, currentSource, lipSyncRest>>
  /\ UNCHANGED <<cmuVars, envVars, g2pVars, avatarVars, rhubarbVars, routeVars, cacheVars>>

\* recognition.onresult with a final transcript: handleFinalTranscript up to
\* its fetch of /api/chat.  The recognition is not continuous: it closes
\* after its final result
handleFinalTranscript(t) ==
  /\ ~ConvEffectDue
  /\ recognition = "on"
  /\ turnPc[t] = "new" /\ \A b \in 1..(t - 1) : turnPc[b] # "new"
  /\ StopSpeaking
  /\ status' = "thinking" /\ statusRef' = "thinking"
  /\ turnPc' = [turnPc EXCEPT ![t] = "chat"]
  /\ cancelled' = cancelled \cup {b \in Turns : turnPc[b] = "chat"}
  /\ recognition' = "closing"
  /\ UNCHANGED <<idleTimer, seenFlags>>
  /\ UNCHANGED lipSyncRest
  /\ UNCHANGED <<cmuVars, envVars, g2pVars, avatarVars, rhubarbVars, routeVars, cacheVars>>

\* recognition.onerror
RecognitionOnError ==
  /\ ~ConvEffectDue
  /\ recognition \in {"starting", "on"}
  /\ recognition' = "closing"
  /\ status' = "idle" /\ statusRef' = "idle"
  /\ UNCHANGED <<turnPc, turnSource, idleTimer, seenFlags, cancelled>>
  /\ UNCHANGED <<isPlaying, isFetching, currentSource, lipSyncRest>>
  /\ UNCHANGED <<cmuVars, envVars, g2pVars, avatarVars, rhubarbVars, routeVars, cacheVars>>

\* recognition.onend: after a result, an error, a stop() or a silence timeout
RecognitionOnEnd ==
  /\ ~ConvEffectDue
  /\ recognition \in {"on", "closing"}
  /\ recognition' = "off"
  /\ status' = IF statusRef = "listening" THEN "idle" ELSE status
  /\ statusRef' = IF statusRef = "listening" THEN "idle" ELSE statusRef
  /\ UNCHANGED <<turnPc, turnSource, idleTimer, seenFlags, cancelled>>
  /\ UNCHANGED <<isPlaying, isFetching, currentSource, lipSyncRest>>
  /\ UNCHANGED <<cmuVars, envVars, g2pVars, avatarVars, rhubarbVars, routeVars, cacheVars>>

\* interrupt (its recognition.stop() shows as a later onend)
interrupt ==
  /\ ~ConvEffectDue
  /\ StopSpeaking
  /\ status' = "idle" /\ statusRef' = "idle"
  /\ cancelled' = cancelled \cup {b \in Turns : turnPc[b] = "chat"}
  /\ UNCHANGED <<recognition, turnPc, idleTimer, seenFlags>>
  /\ UNCHANGED lipSyncRest
  /\ UNCHANGED <<cmuVars, envVars, g2pVars, avatarVars, rhubarbVars, routeVars, cacheVars>>

\* /api/chat fails or answers with an error status: the catch block
ChatFails(t) ==
  /\ ~ConvEffectDue
  /\ turnPc[t] = "chat"
  /\ turnPc' = [turnPc EXCEPT ![t] = "chatFailed"]
  /\ status' = "idle" /\ statusRef' = "idle"
  /\ UNCHANGED <<recognition, turnSource, idleTimer, seenFlags, cancelled>>
  /\ UNCHANGED <<isPlaying, isFetching, currentSource, lipSyncRest>>
  /\ UNCHANGED <<cmuVars, envVars, g2pVars, avatarVars, rhubarbVars, routeVars, cacheVars>>

\* /api/chat replies: setStatus('responding'), then speak(reply) up to its
\* TTS fetch
ChatReplies(t) ==
  /\ ~ConvEffectDue
  /\ turnPc[t] = "chat"
  /\ turnPc' = [turnPc EXCEPT ![t] = "tts"]
  /\ status' = "responding" /\ statusRef' = "responding"
  /\ isFetching' = TRUE
  /\ UNCHANGED <<recognition, turnSource, idleTimer, seenFlags, cancelled>>
  /\ UNCHANGED <<isPlaying, currentSource, lipSyncRest>>
  /\ UNCHANGED <<cmuVars, envVars, g2pVars, avatarVars, rhubarbVars, routeVars, cacheVars>>

\* the TTS request of speak fails: speak's catch block
ReplyTtsFails(t) ==
  /\ ~ConvEffectDue
  /\ turnPc[t] = "tts"
  /\ turnPc' = [turnPc EXCEPT ![t] = "ttsFailed"]
  /\ isFetching' = FALSE
  /\ isPlaying' = FALSE
  /\ UNCHANGED <<status, statusRef, recognition, turnSource, idleTimer, seenFlags, cancelled>>
  /\ UNCHANGED <<currentSource, lipSyncRest>>
  /\ UNCHANGED <<cmuVars, envVars, g2pVars, avatarVars, rhubarbVars, routeVars, cacheVars>>

\* the TTS audio has arrived: speak from "Step 4" on.  playPCM throws for an
\* empty buffer (speak's catch block); otherwise it stops the current source
\* and starts one for this reply
ReplyTtsArrives(t, hasAudio) ==
  /\ ~ConvEffectDue
  /\ turnPc[t] = "tts"
  /\ isFetching' = FALSE
  /\ IF hasAudio
       THEN /\ turnPc' = [turnPc EXCEPT ![t] = "spoke"]
            /\ isPlaying' = TRUE
            /\ turnSource' =
                 [b \in Turns |->
                    IF b = t THEN "playing"
                    ELSE IF b = currentSource /\ turnSource[b] = "playing" THEN "stopped"
                    ELSE turnSource[b]]
            /\ currentSource' = t
       ELSE /\ turnPc' = [turnPc EXCEPT ![t] = "ttsFailed"]
            /\ isPlaying' = FALSE
            /\ UNCHANGED <<turnSource, currentSource>>
  /\ UNCHANGED <<status, statusRef, recognition, idleTimer, seenFlags, cancelled>>
  /\ UNCHANGED lipSyncRest
  /\ UNCHANGED <<cmuVars, envVars, g2pVars, avatarVars, rhubarbVars, routeVars, cacheVars>>

\* source.onended of the reply's source: it was stopped, or it played out
ReplyAudioEnded(t) ==
  /\ ~ConvEffectDue
  /\ turnSource[t] \in {"playing", "stopped"}
  /\ turnSource' = [turnSource EXCEPT ![t] = "ended"]
  /\ currentSource' = IF currentSource = t THEN 0 ELSE currentSource
  /\ isPlaying' = FALSE
  /\ UNCHANGED <<status, statusRef, recognition, turnPc, idleTimer, seenFlags, cancelled>>
  /\ UNCHANGED <<isFetching, lipSyncRest>>
  /\ UNCHANGED <<cmuVars, envVars, g2pVars, avatarVars, rhubarbVars, routeVars, cacheVars>>

C30_InterruptCancels ==
  \A t \in cancelled : turnPc[t] \in {"chat", "chatFailed"}

-----------------------------------------------------------------------------
(* Specifications.  Each one runs one part of the pipeline and leaves the   *)
(* variables of the other parts at rest.                                    *)

\* estimateWithCMU on every input of Texts x Durations
InitCMU ==
  /\ text \in Texts
  /\ durationSeconds \in Durations
  /\ roundsBelow \in BOOLEAN
  /\ mouthCues = <<>>
  /\ cmuPc = "input"
  /\ pcm16 = <<>> /\ samplesPerFrame = 1 /\ envelope = <<>> /\ envPc = "idle"
  /\ g2pWord = <<>> /\ g2pResult = <<>> /\ g2pPc = "idle"
  /\ avatarProps = [currentViseme |-> "X", nextViseme |-> "X",
                    isPlaying |-> FALSE, mouthAmplitude |-> Zero]
  /\ weights = [name \in ALL_VISEME_TARGETS |-> Zero]
  /\ morphTargetInfluences = [name \in ALL_VISEME_TARGETS |-> Zero]
  /\ frames = 0 /\ framePc = "idle"
  /\ proc = "idle" /\ closeCode = "none" /\ rhubarbPromise = "pending"
  /\ elapsed = 0 /\ timer = "unset" /\ settleCalls = 0
  /\ request = [parses |-> FALSE, audioPresent |-> FALSE, audioBytes |-> 0,
                transcript |-> <<>>]
  /\ rhubarbAvailable = FALSE
  /\ extractOutcome = [kind |-> "fail", cues |-> <<>>]
  /\ routeRoundsBelow = FALSE
  /\ response = [status |-> 0, mouthCues |-> <<>>] /\ routePc = "idle"
  /\ cache = <<>>
  /\ extractCalls = [c \in ExtractCallIds |-> [pc |-> "done", key |-> <<>>, returned |-> StoredValue(<<>>)]]
  /\ status = "idle" /\ statusRef = "idle" /\ recognition = "off"
  /\ turnPc = [t \in Turns |-> "chatFailed"]
  /\ turnSource = [t \in Turns |-> "unused"]
  /\ idleTimer = "unset" /\ seenFlags = <<FALSE, FALSE>>
  /\ cancelled = {}
  /\ isPlaying = FALSE /\ isFetching = FALSE
  /\ currentViseme = "X" /\ nextViseme = "X" /\ error = "null"
  /\ isPlayingRef = FALSE /\ currentVisemeRef = "X" /\ nextVisemeRef = "X"
  /\ phonemeDataRef = <<>>
  /\ audioBufferRef = 0
  /\ animationFrameRef = "unset" /\ pendingFrames = 0 /\ effectIsPlaying = FALSE
  /\ currentSource = 0
  /\ sourceState = [s \in Sources |-> "unused"]
  /\ sourceUtt = 0
  /\ clock = 0
  /\ speakPc = [u \in Utterances |-> "new"]
  /\ uttText = [u \in Utterances |-> <<>>]
  /\ uttDuration = [u \in Utterances |-> Zero]
  /\ refineResponse = [u \in Utterances |-> NoResponse]
  /\ stopped = {}

NextCMU == Estimate
SpecCMU == InitCMU /\ [][NextCMU]_vars

\* extractAmplitudeEnvelope on every buffer of PcmBuffers
InitEnv ==
  /\ text = <<>> /\ durationSeconds = Zero /\ roundsBelow = FALSE
  /\ mouthCues = <<>> /\ cmuPc = "idle"
  /\ pcm16 \in PcmBuffers
  /\ samplesPerFrame \in 1..MaxSamplesPerFrame
  /\ envelope = <<>>
  /\ envPc = "input"
  /\ g2pWord = <<>> /\ g2pResult = <<>> /\ g2pPc = "idle"
  /\ avatarProps = [currentViseme |-> "X", nextViseme |-> "X",
                    isPlaying |-> FALSE, mouthAmplitude |-> Zero]
  /\ weights = [name \in ALL_VISEME_TARGETS |-> Zero]
  /\ morphTargetInfluences = [name \in ALL_VISEME_TARGETS |-> Zero]
  /\ frames = 0 /\ framePc = "idle"
  /\ proc = "idle" /\ closeCode = "none" /\ rhubarbPromise = "pending"
  /\ elapsed = 0 /\ timer = "unset" /\ settleCalls = 0
  /\ request = [parses |-> FALSE, audioPresent |-> FALSE, audioBytes |-> 0,
                transcript |-> <<>>]
  /\ rhubarbAvailable = FALSE
  /\ extractOutcome = [kind |-> "fail", cues |-> <<>>]
  /\ routeRoundsBelow = FALSE
  /\ response = [status |-> 0, mouthCues |-> <<>>] /\ routePc = "idle"
  /\ cache = <<>>
  /\ extractCalls = [c \in ExtractCallIds |-> [pc |-> "done", key |-> <<>>, returned |-> StoredValue(<<>>)]]
  /\ status = "idle" /\ statusRef = "idle" /\ recognition = "off"
  /\ turnPc = [t \in Turns |-> "chatFailed"]
  /\ turnSource = [t \in Turns |-> "unused"]
  /\ idleTimer = "unset" /\ seenFlags = <<FALSE, FALSE>>
  /\ cancelled = {}
  /\ isPlaying = FALSE /\ isFetching = FALSE
  /\ currentViseme = "X" /\ nextViseme = "X" /\ error = "null"
  /\ isPlayingRef = FALSE /\ currentVisemeRef = "X" /\ nextVisemeRef = "X"
  /\ phonemeDataRef = <<>>
  /\ audioBufferRef = 0
  /\ animationFrameRef = "unset" /\ pendingFrames = 0 /\ effectIsPlaying = FALSE
  /\ currentSource = 0
  /\ sourceState = [s \in Sources |-> "unused"]
  /\ sourceUtt = 0
  /\ clock = 0
  /\ speakPc = [u \in Utterances |-> "new"]
  /\ uttText = [u \in Utterances |-> <<>>]
  /\ uttDuration = [u \in Utterances |-> Zero]
  /\ refineResponse = [u \in Utterances |-> NoResponse]
  /\ stopped = {}

NextEnv == ExtractEnvelope
SpecEnv == InitEnv /\ [][NextEnv]_vars

\* wordToRhubarb on every word of G2PWords
InitG2P ==
  /\ text = <<>> /\ durationSeconds = Zero /\ roundsBelow = FALSE
  /\ mouthCues = <<>> /\ cmuPc = "idle"
  /\ pcm16 = <<>> /\ samplesPerFrame = 1 /\ envelope = <<>> /\ envPc = "idle"
  /\ g2pWord \in G2PWords
  /\ g2pResult = <<>>
  /\ g2pPc = "input"
  /\ avatarProps = [currentViseme |-> "X", nextViseme |-> "X",
                    isPlaying |-> FALSE, mouthAmplitude |-> Zero]
  /\ weights = [name \in ALL_VISEME_TARGETS |-> Zero]
  /\ morphTargetInfluences = [name \in ALL_VISEME_TARGETS |-> Zero]
  /\ frames = 0 /\ framePc = "idle"
  /\ proc = "idle" /\ closeCode = "none" /\ rhubarbPromise = "pending"
  /\ elapsed = 0 /\ timer = "unset" /\ settleCalls = 0
  /\ request = [parses |-> FALSE, audioPresent |-> FALSE, audioBytes |-> 0,
                transcript |-> <<>>]
  /\ rhubarbAvailable = FALSE
  /\ extractOutcome = [kind |-> "fail", cues |-> <<>>]
  /\ routeRoundsBelow = FALSE
  /\ response = [status |-> 0, mouthCues |-> <<>>] /\ routePc = "idle"
  /\ cache = <<>>
  /\ extractCalls = [c \in ExtractCallIds |-> [pc |-> "done", key |-> <<>>, returned |-> StoredValue(<<>>)]]
  /\ status = "idle" /\ statusRef = "idle" /\ recognition = "off"
  /\ turnPc = [t \in Turns |-> "chatFailed"]
  /\ turnSource = [t \in Turns |-> "unused"]
  /\ idleTimer = "unset" /\ seenFlags = <<FALSE, FALSE>>
  /\ cancelled = {}
  /\ isPlaying = FALSE /\ isFetching = FALSE
  /\ currentViseme = "X" /\ nextViseme = "X" /\ error = "null"
  /\ isPlayingRef = FALSE /\ currentVisemeRef = "X" /\ nextVisemeRef = "X"
  /\ phonemeDataRef = <<>>
  /\ audioBufferRef = 0
  /\ animationFrameRef = "unset" /\ pendingFrames = 0 /\ effectIsPlaying = FALSE
  /\ currentSource = 0
  /\ sourceState = [s \in Sources |-> "unused"]
  /\ sourceUtt = 0
  /\ clock = 0
  /\ speakPc = [u \in Utterances |-> "new"]
  /\ uttText = [u \in Utterances |-> <<>>]
  /\ uttDuration = [u \in Utterances |-> Zero]
  /\ refineResponse = [u \in Utterances |-> NoResponse]
  /\ stopped = {}

NextG2P == WordToRhubarb
SpecG2P == InitG2P /\ [][NextG2P]_vars

\* the frames of the avatar, from every combination of its props
InitAvatar ==
  /\ text = <<>> /\ durationSeconds = Zero /\ roundsBelow = FALSE
  /\ mouthCues = <<>> /\ cmuPc = "idle"
  /\ pcm16 = <<>> /\ samplesPerFrame = 1 /\ envelope = <<>> /\ envPc = "idle"
  /\ g2pWord = <<>> /\ g2pResult = <<>> /\ g2pPc = "idle"
  /\ avatarProps \in [currentViseme : Visemes, nextViseme : Visemes,
                       isPlaying : BOOLEAN, mouthAmplitude : Amplitudes]
  /\ weights = [name \in ALL_VISEME_TARGETS |-> Zero]
  /\ morphTargetInfluences = [name \in ALL_VISEME_TARGETS |-> Zero]
  /\ frames = 0
  /\ framePc = "input"
  /\ proc = "idle" /\ closeCode = "none" /\ rhubarbPromise = "pending"
  /\ elapsed = 0 /\ timer = "unset" /\ settleCalls = 0
  /\ request = [parses |-> FALSE, audioPresent |-> FALSE, audioBytes |-> 0,
                transcript |-> <<>>]
  /\ rhubarbAvailable = FALSE
  /\ extractOutcome = [kind |-> "fail", cues |-> <<>>]
  /\ routeRoundsBelow = FALSE
  /\ response = [status |-> 0, mouthCues |-> <<>>] /\ routePc = "idle"
  /\ cache = <<>>
  /\ extractCalls = [c \in ExtractCallIds |-> [pc |-> "done", key |-> <<>>, returned |-> StoredValue(<<>>)]]
  /\ status = "idle" /\ statusRef = "idle" /\ recognition = "off"
  /\ turnPc = [t \in Turns |-> "chatFailed"]
  /\ turnSource = [t \in Turns |-> "unused"]
  /\ idleTimer = "unset" /\ seenFlags = <<FALSE, FALSE>>
  /\ cancelled = {}
  /\ isPlaying = FALSE /\ isFetching = FALSE
  /\ currentViseme = "X" /\ nextViseme = "X" /\ error = "null"
  /\ isPlayingRef = FALSE /\ currentVisemeRef = "X" /\ nextVisemeRef = "X"
  /\ phonemeDataRef = <<>>
  /\ audioBufferRef = 0
  /\ animationFrameRef = "unset" /\ pendingFrames = 0 /\ effectIsPlaying = FALSE
  /\ currentSource = 0
  /\ sourceState = [s \in Sources |-> "unused"]
  /\ sourceUtt = 0
  /\ clock = 0
  /\ speakPc = [u \in Utterances |-> "new"]
  /\ uttText = [u \in Utterances |-> <<>>]
  /\ uttDuration = [u \in Utterances |-> Zero]
  /\ refineResponse = [u \in Utterances |-> NoResponse]
  /\ stopped = {}

NextAvatar == UseFrame \/ Render
SpecAvatar == InitAvatar /\ [][NextAvatar]_vars

\* one call of runRhubarb: the child process, the clock and the timer
InitRhubarb ==
  /\ text = <<>> /\ durationSeconds = Zero /\ roundsBelow = FALSE
  /\ mouthCues = <<>> /\ cmuPc = "idle"
  /\ pcm16 = <<>> /\ samplesPerFrame = 1 /\ envelope = <<>> /\ envPc = "idle"
  /\ g2pWord = <<>> /\ g2pResult = <<>> /\ g2pPc = "idle"
  /\ avatarProps = [currentViseme |-> "X", nextViseme |-> "X",
                    isPlaying |-> FALSE, mouthAmplitude |-> Zero]
  /\ weights = [name \in ALL_VISEME_TARGETS |-> Zero]
  /\ morphTargetInfluences = [name \in ALL_VISEME_TARGETS |-> Zero]
  /\ frames = 0 /\ framePc = "idle"
  /\ proc = "writing" /\ closeCode = "none" /\ rhubarbPromise = "pending"
  /\ elapsed = 0 /\ timer = "unset" /\ settleCalls = 0
  /\ request = [parses |-> FALSE, audioPresent |-> FALSE, audioBytes |-> 0,
                transcript |-> <<>>]
  /\ rhubarbAvailable = FALSE
  /\ extractOutcome = [kind |-> "fail", cues |-> <<>>]
  /\ routeRoundsBelow = FALSE
  /\ response = [status |-> 0, mouthCues |-> <<>>] /\ routePc = "idle"
  /\ cache = <<>>
  /\ extractCalls = [c \in ExtractCallIds |-> [pc |-> "done", key |-> <<>>, returned |-> StoredValue(<<>>)]]
  /\ status = "idle" /\ statusRef = "idle" /\ recognition = "off"
  /\ turnPc = [t \in Turns |-> "chatFailed"]
  /\ turnSource = [t \in Turns |-> "unused"]
  /\ idleTimer = "unset" /\ seenFlags = <<FALSE, FALSE>>
  /\ cancelled = {}
  /\ isPlaying = FALSE /\ isFetching = FALSE
  /\ currentViseme = "X" /\ nextViseme = "X" /\ error = "null"
  /\ isPlayingRef = FALSE /\ currentVisemeRef = "X" /\ nextVisemeRef = "X"
  /\ phonemeDataRef = <<>>
  /\ audioBufferRef = 0
  /\ animationFrameRef = "unset" /\ pendingFrames = 0 /\ effectIsPlaying = FALSE
  /\ currentSource = 0
  /\ sourceState = [s \in Sources |-> "unused"]
  /\ sourceUtt = 0
  /\ clock = 0
  /\ speakPc = [u \in Utterances |-> "new"]
  /\ uttText = [u \in Utterances |-> <<>>]
  /\ uttDuration = [u \in Utterances |-> Zero]
  /\ refineResponse = [u \in Utterances |-> NoResponse]
  /\ stopped = {}

NextRhubarb ==
  \/ WriteFileDone
  \/ WriteFileFails
  \/ Tick
  \/ \E c \in CloseCodes : ProcClose(c)
  \/ UnlinkDone
  \/ ProcError
  \/ TimerFires
SpecRhubarb == InitRhubarb /\ [][NextRhubarb]_vars

\* POST /api/phonemes on every request of Requests
InitRoute ==
  /\ text = <<>> /\ durationSeconds = Zero /\ roundsBelow = FALSE
  /\ mouthCues = <<>> /\ cmuPc = "idle"
  /\ pcm16 = <<>> /\ samplesPerFrame = 1 /\ envelope = <<>> /\ envPc = "idle"
  /\ g2pWord = <<>> /\ g2pResult = <<>> /\ g2pPc = "idle"
  /\ avatarProps = [currentViseme |-> "X", nextViseme |-> "X",
                    isPlaying |-> FALSE, mouthAmplitude |-> Zero]
  /\ weights = [name \in ALL_VISEME_TARGETS |-> Zero]
  /\ morphTargetInfluences = [name \in ALL_VISEME_TARGETS |-> Zero]
  /\ frames = 0 /\ framePc = "idle"
  /\ proc = "idle" /\ closeCode = "none" /\ rhubarbPromise = "pending"
  /\ elapsed = 0 /\ timer = "unset" /\ settleCalls = 0
  /\ request \in Requests
  /\ rhubarbAvailable \in BOOLEAN
  /\ extractOutcome \in ExtractOutcomes(request.audioBytes)
  /\ routeRoundsBelow \in BOOLEAN
  /\ response = [status |-> 0, mouthCues |-> <<>>]
  /\ routePc = "input"
  /\ cache = <<>>
  /\ extractCalls = [c \in ExtractCallIds |-> [pc |-> "done", key |-> <<>>, returned |-> StoredValue(<<>>)]]
  /\ status = "idle" /\ statusRef = "idle" /\ recognition = "off"
  /\ turnPc = [t \in Turns |-> "chatFailed"]
  /\ turnSource = [t \in Turns |-> "unused"]
  /\ idleTimer = "unset" /\ seenFlags = <<FALSE, FALSE>>
  /\ cancelled = {}
  /\ isPlaying = FALSE /\ isFetching = FALSE
  /\ currentViseme = "X" /\ nextViseme = "X" /\ error = "null"
  /\ isPlayingRef = FALSE /\ currentVisemeRef = "X" /\ nextVisemeRef = "X"
  /\ phonemeDataRef = <<>>
  /\ audioBufferRef = 0
  /\ animationFrameRef = "unset" /\ pendingFrames = 0 /\ effectIsPlaying = FALSE
  /\ currentSource = 0
  /\ sourceState = [s \in Sources |-> "unused"]
  /\ sourceUtt = 0
  /\ clock = 0
  /\ speakPc = [u \in Utterances |-> "new"]
  /\ uttText = [u \in Utterances |-> <<>>]
  /\ uttDuration = [u \in Utterances |-> Zero]
  /\ refineResponse = [u \in Utterances |-> NoResponse]
  /\ stopped = {}

NextRoute == HandlePost
SpecRoute == InitRoute /\ [][NextRoute]_vars

\* overlapping extractPhonemes calls on a cache that is full or one short
InitCache ==
  /\ text = <<>> /\ durationSeconds = Zero /\ roundsBelow = FALSE
  /\ mouthCues = <<>> /\ cmuPc = "idle"
  /\ pcm16 = <<>> /\ samplesPerFrame = 1 /\ envelope = <<>> /\ envPc = "idle"
  /\ g2pWord = <<>> /\ g2pResult = <<>> /\ g2pPc = "idle"
  /\ avatarProps = [currentViseme |-> "X", nextViseme |-> "X",
                    isPlaying |-> FALSE, mouthAmplitude |-> Zero]
  /\ weights = [name \in ALL_VISEME_TARGETS |-> Zero]
  /\ morphTargetInfluences = [name \in ALL_VISEME_TARGETS |-> Zero]
  /\ frames = 0 /\ framePc = "idle"
  /\ proc = "idle" /\ closeCode = "none" /\ rhubarbPromise = "pending"
  /\ elapsed = 0 /\ timer = "unset" /\ settleCalls = 0
  /\ request = [parses |-> FALSE, audioPresent |-> FALSE, audioBytes |-> 0,
                transcript |-> <<>>]
  /\ rhubarbAvailable = FALSE
  /\ extractOutcome = [kind |-> "fail", cues |-> <<>>]
  /\ routeRoundsBelow = FALSE
  /\ response = [status |-> 0, mouthCues |-> <<>>] /\ routePc = "idle"
  /\ \E n \in (CACHE_LIMIT - 1)..CACHE_LIMIT : cache = FilledCache(n)
  /\ extractCalls = [c \in ExtractCallIds |-> [pc |-> "idle", key |-> <<>>, returned |-> StoredValue(<<>>)]]
  /\ status = "idle" /\ statusRef = "idle" /\ recognition = "off"
  /\ turnPc = [t \in Turns |-> "chatFailed"]
  /\ turnSource = [t \in Turns |-> "unused"]
  /\ idleTimer = "unset" /\ seenFlags = <<FALSE, FALSE>>
  /\ cancelled = {}
  /\ isPlaying = FALSE /\ isFetching = FALSE
  /\ currentViseme = "X" /\ nextViseme = "X" /\ error = "null"
  /\ isPlayingRef = FALSE /\ currentVisemeRef = "X" /\ nextVisemeRef = "X"
  /\ phonemeDataRef = <<>>
  /\ audioBufferRef = 0
  /\ animationFrameRef = "unset" /\ pendingFrames = 0 /\ effectIsPlaying = FALSE
  /\ currentSource = 0
  /\ sourceState = [s \in Sources |-> "unused"]
  /\ sourceUtt = 0
  /\ clock = 0
  /\ speakPc = [u \in Utterances |-> "new"]
  /\ uttText = [u \in Utterances |-> <<>>]
  /\ uttDuration = [u \in Utterances |-> Zero]
  /\ refineResponse = [u \in Utterances |-> NoResponse]
  /\ stopped = {}

NextCache ==
  \/ \E c \in ExtractCallIds, input \in ExtractInputs : ExtractPhonemes(c, input)
  \/ \E c \in ExtractCallIds : RunRhubarbResolves(c)
  \/ \E c \in ExtractCallIds : RunRhubarbRejects(c)
SpecCache == InitCache /\ [][NextCache]_vars

\* the hook after its first render
InitHook ==
  /\ text = <<>> /\ durationSeconds = Zero /\ roundsBelow = FALSE
  /\ mouthCues = <<>> /\ cmuPc = "idle"
  /\ pcm16 = <<>> /\ samplesPerFrame = 1 /\ envelope = <<>> /\ envPc = "idle"
  /\ g2pWord = <<>> /\ g2pResult = <<>> /\ g2pPc = "idle"
  /\ avatarProps = [currentViseme |-> "X", nextViseme |-> "X",
                    isPlaying |-> FALSE, mouthAmplitude |-> Zero]
  /\ weights = [name \in ALL_VISEME_TARGETS |-> Zero]
  /\ morphTargetInfluences = [name \in ALL_VISEME_TARGETS |-> Zero]
  /\ frames = 0 /\ framePc = "idle"
  /\ proc = "idle" /\ closeCode = "none" /\ rhubarbPromise = "pending"
  /\ elapsed = 0 /\ timer = "unset" /\ settleCalls = 0
  /\ request = [parses |-> FALSE, audioPresent |-> FALSE, audioBytes |-> 0,
                transcript |-> <<>>]
  /\ rhubarbAvailable = FALSE
  /\ extractOutcome = [kind |-> "fail", cues |-> <<>>]
  /\ routeRoundsBelow = FALSE
  /\ response = [status |-> 0, mouthCues |-> <<>>] /\ routePc = "idle"
  /\ cache = <<>>
  /\ extractCalls = [c \in ExtractCallIds |-> [pc |-> "done", key |-> <<>>, returned |-> StoredValue(<<>>)]]
  /\ status = "idle" /\ statusRef = "idle" /\ recognition = "off"
  /\ turnPc = [t \in Turns |-> "chatFailed"]
  /\ turnSource = [t \in Turns |-> "unused"]
  /\ idleTimer = "unset" /\ seenFlags = <<FALSE, FALSE>>
  /\ cancelled = {}
  /\ isPlaying = FALSE /\ isFetching = FALSE
  /\ currentViseme = "X" /\ nextViseme = "X" /\ error = "null"
  /\ isPlayingRef = FALSE /\ currentVisemeRef = "X" /\ nextVisemeRef = "X"
  /\ phonemeDataRef = <<>>
  /\ audioBufferRef = 0
  /\ animationFrameRef = "unset" /\ pendingFrames = 0 /\ effectIsPlaying = FALSE
  /\ currentSource = 0
  /\ sourceState = [s \in Sources |-> "unused"]
  /\ sourceUtt = 0
  /\ clock = 0
  /\ speakPc = [u \in Utterances |-> "new"]
  /\ uttText = [u \in Utterances |-> <<>>]
  /\ uttDuration = [u \in Utterances |-> Zero]
  /\ refineResponse = [u \in Utterances |-> NoResponse]
  /\ stopped = {}

\* the hook under every interleaving of its callers, the network responses,
\* the audio clock and the animation frames
NextHook ==
  \/ RunEffects
  \/ updateViseme
  \/ \E t \in SpeakTexts : Speak(t)
  \/ \E u \in Utterances : TtsFails(u)
  \/ \E u \in Utterances, D \in AudioDurations : TtsArrives(u, D)
  \/ \E u \in Utterances, reached \in BOOLEAN : EstimateReturns(u, reached)
  \/ \E u \in Utterances : PhonemesPostRhubarb(u)
  \/ \E u \in Utterances : PhonemesPostFallback(u)
  \/ \E u \in Utterances : PhonemesPostError(u)
  \/ \E u \in Utterances : RefineReturns(u)
  \/ Stop
  \/ Replay
  \/ ClockAdvance
  \/ \E s \in Sources : AudioEnded(s)
SpecHook == InitHook /\ [][NextHook]_vars

\* useConversation after its first render, the lip-sync hook idle
InitConv ==
  /\ text = <<>> /\ durationSeconds = Zero /\ roundsBelow = FALSE
  /\ mouthCues = <<>> /\ cmuPc = "idle"
  /\ pcm16 = <<>> /\ samplesPerFrame = 1 /\ envelope = <<>> /\ envPc = "idle"
  /\ g2pWord = <<>> /\ g2pResult = <<>> /\ g2pPc = "idle"
  /\ avatarProps = [currentViseme |-> "X", nextViseme |-> "X",
                    isPlaying |-> FALSE, mouthAmplitude |-> Zero]
  /\ weights = [name \in ALL_VISEME_TARGETS |-> Zero]
  /\ morphTargetInfluences = [name \in ALL_VISEME_TARGETS |-> Zero]
  /\ frames = 0 /\ framePc = "idle"
  /\ proc = "idle" /\ closeCode = "none" /\ rhubarbPromise = "pending"
  /\ elapsed = 0 /\ timer = "unset" /\ settleCalls = 0
  /\ request = [parses |-> FALSE, audioPresent |-> FALSE, audioBytes |-> 0,
                transcript |-> <<>>]
  /\ rhubarbAvailable = FALSE
  /\ extractOutcome = [kind |-> "fail", cues |-> <<>>]
  /\ routeRoundsBelow = FALSE
  /\ response = [status |-> 0, mouthCues |-> <<>>] /\ routePc = "idle"
  /\ cache = <<>>
  /\ extractCalls = [c \in ExtractCallIds |-> [pc |-> "done", key |-> <<>>, returned |-> StoredValue(<<>>)]]
  /\ status = "idle" /\ statusRef = "idle" /\ recognition = "off"
  /\ turnPc = [t \in Turns |-> "new"]
  /\ turnSource = [t \in Turns |-> "unused"]
  /\ idleTimer = "unset" /\ seenFlags = <<FALSE, FALSE>>
  /\ cancelled = {}
  /\ isPlaying = FALSE /\ isFetching = FALSE
  /\ currentViseme = "X" /\ nextViseme = "X" /\ error = "null"
  /\ isPlayingRef = FALSE /\ currentVisemeRef = "X" /\ nextVisemeRef = "X"
  /\ phonemeDataRef = <<>>
  /\ audioBufferRef = 0
  /\ animationFrameRef = "unset" /\ pendingFrames = 0 /\ effectIsPlaying = FALSE
  /\ currentSource = 0
  /\ sourceState = [s \in Sources |-> "unused"]
  /\ sourceUtt = 0
  /\ clock = 0
  /\ speakPc = [u \in Utterances |-> "new"]
  /\ uttText = [u \in Utterances |-> <<>>]
  /\ uttDuration = [u \in Utterances |-> Zero]
  /\ refineResponse = [u \in Utterances |-> NoResponse]
  /\ stopped = {}

\* the user (startListening, interrupt, what they say), the recognition
\* events, the network responses, the audio events, the effect and its timer
NextConv ==
  \/ RespondingEffect
  \/ IdleTimerFires
  \/ startListening
  \/ RecognitionOnStart
  \/ \E t \in Turns : handleFinalTranscript(t)
  \/ RecognitionOnError
  \/ RecognitionOnEnd
  \/ interrupt
  \/ \E t \in Turns : ChatFails(t)
  \/ \E t \in Turns : ChatReplies(t)
  \/ \E t \in Turns : ReplyTtsFails(t)
  \/ \E t \in Turns, hasAudio \in BOOLEAN : ReplyTtsArrives(t, hasAudio)
  \/ \E t \in Turns : ReplyAudioEnded(t)
SpecConv == InitConv /\ [][NextConv]_vars

\* Scheduling: a due effect runs, an armed timer fires, the recognition
\* delivers its start and end events, every request gets its response and
\* every source its 'ended' event.  Nothing is assumed of the user
ConvFairness ==
  /\ WF_vars(RespondingEffect)
  /\ WF_vars(IdleTimerFires)
  /\ WF_vars(RecognitionOnStart)
  /\ WF_vars(RecognitionOnEnd)
  /\ \A t \in Turns :
        /\ WF_vars(ChatFails(t) \/ ChatReplies(t))
        /\ WF_vars(ReplyTtsFails(t) \/ \E hasAudio \in BOOLEAN : ReplyTtsArrives(t, hasAudio))
        /\ WF_vars(ReplyAudioEnded(t))
SpecConvLive == InitConv /\ [][NextConv]_vars /\ ConvFairness

-----------------------------------------------------------------------------
(* Properties of the hook                                                   *)

\* this step runs refinePhonemes on the response for utterance u
RefineStep(u) == refineResponse[u].outcome # "none" /\ refineResponse'[u].outcome = "none"

\* lastCueEnd / audioDuration >= 0.70, by cross-multiplication
CoversSeventyPercent(cues, D) ==
  /\ D[1] > 0
  /\ cues # <<>>
  /\ 10 * cues[Len(cues)].end[1] * D[2] >= 7 * D[1] * cues[Len(cues)].end[2]

\* C3: when a Rhubarb timeline arrives it replaces the active timeline if
\* and only if its last cue ends at >= 70% of the audio duration (exactly
\* 70% is accepted); otherwise the active timeline is left as it was
C3_CoverageGate ==
  [][\A u \in Utterances :
       (RefineStep(u) /\ refineResponse[u].outcome = "rhubarb") =>
          IF CoversSeventyPercent(refineResponse[u].mouthCues, uttDuration[u])
            THEN phonemeDataRef' = refineResponse[u].mouthCues
            ELSE phonemeDataRef' = phonemeDataRef]_vars

\* a Rhubarb timeline that ends at exactly 70% of the audio is the active
\* timeline (the estimates never equal it)
C3_Witness ==
  \E u \in Utterances :
     /\ speakPc[u] = "done"
     /\ RLt(Zero, uttDuration[u])
     /\ phonemeDataRef = RhubarbCues(uttDuration[u], <<7, 10>>)

\* C4: a refinement response that arrives after stop(), or for an utterance
\* that a newer speak() has replaced, does not change the active timeline
C4_LateRefinementIgnored ==
  [][\A u \in Utterances :
       (/\ RefineStep(u)
        /\ \/ u \in stopped
           \/ \E v \in Utterances : v > u /\ speakPc[v] # "new")
          => phonemeDataRef' = phonemeDataRef]_vars

\* C5: when Rhubarb fails, the timeline active after the refinement attempt
\* is the timeline that was active before it, and no error is set
C5_ToolFailureKeepsEstimate ==
  [][\A u \in Utterances :
       (RefineStep(u) /\ refineResponse[u].outcome = "toolFailed") =>
          (phonemeDataRef' = phonemeDataRef /\ error' = error)]_vars

\* C6: once isPlaying is false and the effects have run, the current viseme
\* is X, the look-ahead viseme adds nothing and every target weight is 0
C6_RestPoseAfterStop ==
  (~isPlaying /\ Idle) =>
     /\ currentViseme = "X"
     /\ \A name \in ALL_VISEME_TARGETS :
          BlendedWeights(currentViseme, nextViseme)[name] = Zero

\* Array.prototype.find on a timeline: the value of the first cue that is
\* current at time t, "" when there is none
ActiveValue(timeline, t) ==
  LET hits == {i \in 1..Len(timeline) :
                 RLe(timeline[i].start, t) /\ RLt(t, timeline[i].end)}
  IN  IF hits = {} THEN ""
      ELSE timeline[CHOOSE i \in hits : \A k \in hits : i <= k].value

\* the value of the first cue that starts within the look-ahead window
\* after t, "X" when there is none
AheadValue(timeline, t) ==
  LET hits == {i \in 1..Len(timeline) :
                 /\ RLt(t, timeline[i].start)
                 /\ RLe(timeline[i].start, RAdd(t, LOOK_AHEAD_S))}
  IN  IF hits = {} THEN "X"
      ELSE timeline[CHOOSE i \in hits : \A k \in hits : i <= k].value

\* the complete timelines a response of the two routes can carry right now
ResponseTimelines ==
  {refineResponse[u].mouthCues : u \in Utterances}
    \cup {EstimateRoute(uttText[u], uttDuration[u]).mouthCues : u \in Utterances}

\* C15: a tick takes its active cue and its look-ahead cue from one and
\* the same timeline, the one that is active when it runs; and the active
\* timeline only ever changes to the complete timeline of a response
C15_AtomicTimelineSwap ==
  [][/\ (Idle /\ (currentVisemeRef' # currentVisemeRef
                     \/ nextVisemeRef' # nextVisemeRef))
          => LET t == getCurrentTime
                 active == ActiveValue(phonemeDataRef, t)
             IN  /\ currentVisemeRef' =
                       IF active # "" THEN active
                       ELSE IF RLt(Zero, t) THEN "X" ELSE currentVisemeRef
                 /\ nextVisemeRef' = AheadValue(phonemeDataRef, t)
     /\ phonemeDataRef' # phonemeDataRef => phonemeDataRef' \in ResponseTimelines
    ]_vars

\* during playback a tick has read the refined timeline that replaced the
\* estimate ("B" is a value of the refined timeline only)
C15_Witness ==
  /\ isPlaying /\ Idle
  /\ \E u \in Utterances :
        /\ speakPc[u] = "done"
        /\ phonemeDataRef = RhubarbCues(uttDuration[u], <<3, 4>>)
  /\ currentVisemeRef = "B"

\* C24: every tick that runs while playing sets the current viseme to the
\* value of the cue whose [start, end) holds the audio time, and to X when
\* no cue holds it
C24_ActiveCueLookup ==
  [][(updateViseme /\ isPlayingRef)
       => LET active == ActiveValue(phonemeDataRef, getCurrentTime)
              expected == IF active # "" THEN active ELSE "X"
          IN  currentVisemeRef' = expected /\ currentViseme' = expected]_vars

\* the value of the first cue whose start lies in (lo, hi], X without one
FirstStartingIn(timeline, lo, hi) ==
  LET hits == {i \in 1..Len(timeline) :
                 RLt(lo, timeline[i].start) /\ RLe(timeline[i].start, hi)}
  IN  IF hits = {} THEN "X"
      ELSE timeline[CHOOSE i \in hits : \A k \in hits : i <= k].value

\* the shape weight of viseme v on a target, 0 where the table has none
BaseWeight(v, name) ==
  IF name \in VisemeTargets(v) THEN VISEME_MAP(v)[name] ELSE Zero

\* the blend as the claim states it
ExpectedBlend(cv, nv) ==
  [name \in ALL_VISEME_TARGETS |->
     IF nv = "X" \/ nv = cv THEN BaseWeight(cv, name)
     ELSE RMin(<<1, 1>>, RAdd(BaseWeight(cv, name),
                              RMul(<<1, 5>>, BaseWeight(nv, name))))]

\* C25: every tick that runs while playing sets the look-ahead viseme to
\* the first cue starting in (t, t + 0.05], X without one; and for the
\* current viseme it hands over, the avatar's blend with any look-ahead is
\* the current weights plus 0.20 of the look-ahead's, clamped to 1, a
\* look-ahead of X or of the current viseme adding nothing
C25_LookAheadBlend ==
  [][(updateViseme /\ isPlayingRef)
       => LET t == getCurrentTime
              ahead == FirstStartingIn(phonemeDataRef, t, RAdd(t, <<1, 20>>))
          IN  /\ nextVisemeRef' = ahead /\ nextViseme' = ahead
              /\ \A nv \in Visemes :
                    BlendedWeights(currentViseme', nv) = ExpectedBlend(currentViseme', nv)]_vars

\* a tick found a look-ahead cue that differs from the current one (the
\* open vowel A, whose blend reaches the clamp)
C25_Witness ==
  /\ isPlaying /\ Idle
  /\ currentViseme # "X" /\ currentVisemeRef = currentViseme
  /\ nextViseme \notin {"X", currentViseme} /\ nextVisemeRef = nextViseme

\* C29: whenever the AudioManager has a current source that is playing, the
\* hook's isPlaying is true: the end-of-playback callback of a stopped or
\* superseded source does not clear the flag of the newer playback
C29_PlayingFollowsSource ==
  (currentSource # 0 /\ sourceState[currentSource] = "playing") => isPlaying

\* playback has stopped: isPlaying is false and the hook's effects have run
PlaybackStopped == ~isPlaying /\ ~EffectsDue

=============================================================================
